---- MODULE Spec2Model ----
(***************************************************************************)
(* Model of the PDF extraction service: the multi-level cache              *)
(* (core/store/caching.py, core/store/key_gen.py), the template store and  *)
(* orchestrator (core/store/database.py, core/learning/*.py) and the       *)
(* extraction pipeline (core/api_server.py).                               *)
(*                                                                         *)
(* Conventions                                                             *)
(*  - Python None is the value Null.  A dict is a function whose DOMAIN is *)
(*    the set of its keys.  An OrderedDict is a sequence of [key, entry]   *)
(*    records, oldest first.                                               *)
(*  - sha256 is modelled as a collision-free tag <<"sha256", content>>.    *)
(*  - The diskcache store holds the Tier-2 entries (keys                   *)
(*    "{pdf_hash}:{label}:{schema_hash}") and the Tier-3 entries (keys     *)
(*    "field:{pdf_hash}:{label}:{field}") in one key space; the two key    *)
(*    families are disjoint, so the model keeps them in two variables,     *)
(*    l2_disk_cache and l3_fields.  Labels and field names contain no ':'. *)
(*  - Values read back from the disk store are fresh (unpickled) objects;  *)
(*    values held by Tier-1 are references.  Where the code mutates an     *)
(*    object that Tier-1 also holds, the model updates the Tier-1 entry.   *)
(*  - The "timestamp" of a cache entry is not modelled.                    *)
(*  - L1_MEMORY_MAX_SIZE is 100 in the source; the model scales it down so *)
(*    that eviction happens within the bounded key space.  The code uses   *)
(*    the constant only in the comparison len(l1) > L1_MEMORY_MAX_SIZE.    *)
(***************************************************************************)
EXTENDS Integers, Sequences, FiniteSets, TLC

(***************************************************************************)
(* Bounds                                                                  *)
(***************************************************************************)
NumPdfs == 1
MaxRequests == 3
MaxGets == 1
MaxSets == 3
MaxLearns == 3
MaxStoreCalls == 3
MaxTier1Calls == 4

(***************************************************************************)
(* Program constants                                                       *)
(***************************************************************************)
L1_MEMORY_MAX_SIZE == 2

Null == "<None>"

Pdfs == 1..NumPdfs
Labels == {"oab"}
FieldNames == {"cpf", "nome"}
Descriptions == {"d"}

\* Alphabetical rank of the field names (the order json.dumps(sort_keys=True) uses).
FieldRank(f) == CASE f = "cpf" -> 1 [] f = "endereco" -> 2 [] f = "nome" -> 3 [] OTHER -> 4

\* A schema is an ordered dict: a sequence of <<field name, description>>
\* pairs with distinct names.
SchemaKeys(schema) == [i \in 1..Len(schema) |-> schema[i][1]]
SchemaFieldSet(schema) == {schema[i][1] : i \in 1..Len(schema)}

IsSchema(s) == \A i, j \in 1..Len(s) : i # j => s[i][1] # s[j][1]

Pairs == FieldNames \X Descriptions
Schemas == {s \in UNION {[1..n -> Pairs] : n \in 1..2} : IsSchema(s)}

(***************************************************************************)
(* CacheKeyBuilder (key_gen.py)                                            *)
(***************************************************************************)
_hash_content(content) == <<"sha256", content>>

\* json.dumps(schema, sort_keys=True): the pairs in ascending key order.
RECURSIVE SortByKey(_)
SortByKey(pairs) ==
    IF pairs = {} THEN <<>>
    ELSE LET m == CHOOSE p \in pairs : \A q \in pairs : FieldRank(p[1]) <= FieldRank(q[1])
         IN <<m>> \o SortByKey(pairs \ {m})

_hash_schema_insertion_order(schema) ==
    <<"sha256", schema>>

_hash_schema(schema) ==
    <<"sha256", SortByKey({schema[i] : i \in 1..Len(schema)})>>

\* The schemas of the requests made: one per set of fields, the fields in
\* ascending key order.  A schema listing the same fields in another order
\* has the same fingerprint.
RequestSchemas == {s \in Schemas : _hash_schema(s)[2] = s}

generate_l1_l2_key(pdf_bytes, label, schema) ==
    <<_hash_content(pdf_bytes), label, _hash_schema(schema)>>

generate_l3_field_key(pdf_bytes, label, field_name) ==
    <<"field", _hash_content(pdf_bytes), label, field_name>>

(***************************************************************************)
(* State                                                                   *)
(***************************************************************************)
VARIABLES
    l1_memory_cache,   \* CacheManager.l1_memory_cache: sequence of [key, entry]
    l2_disk_cache,     \* Tier-2 part of CacheManager.l2_disk_cache: key -> entry
    l3_fields,         \* Tier-3 part of CacheManager.l2_disk_cache: field key -> value
    stats,             \* CacheManager.stats
    last,              \* the last operation, its inputs and what it returned
    lastSet,           \* per request key, the data and metadata of the latest set
    set_calls,         \* number of CacheManager.set calls made so far
    templates,         \* TemplateDatabase: rows of table templates
    extraction_rules,  \* TemplateDatabase: rows of table extraction_rules
    pipeline_stats,    \* ExtractionPipeline.stats
    requests,          \* number of extract calls made so far, over all processes
    learn_calls,       \* number of direct learn_from_llm_result calls made so far
    store_calls        \* number of direct TemplateDatabase calls made so far

cacheVars == <<l1_memory_cache, l2_disk_cache, l3_fields, stats>>
pipelineVars == <<templates, extraction_rules, pipeline_stats, requests, learn_calls,
                  store_calls>>
vars == <<l1_memory_cache, l2_disk_cache, l3_fields, stats, last, lastSet, set_calls,
          templates, extraction_rules, pipeline_stats, requests, learn_calls, store_calls>>

NoMeta == [method |-> "-", steps |-> <<>>]
EmptyMap == [x \in {} |-> Null]

\* A cache entry as set() builds it.  dataPipe says that the data dict holds
\* a "_pipeline" key whose value is the very object stored under "metadata";
\* info and pipe are the "_cache_info" and "_pipeline" keys of the entry dict.
NewEntry(result_data, exec_metadata) ==
    [data |-> result_data, metadata |-> exec_metadata, dataPipe |-> FALSE,
     info |-> "-", pipe |-> NoMeta]

NoneResult ==
    [source |-> "NONE", data |-> EmptyMap, metadata |-> NoMeta, dataPipe |-> FALSE,
     pipe |-> NoMeta, fields_found |-> 0, fields_requested |-> 0]

L1Keys(l1) == {l1[i].key : i \in 1..Len(l1)}
L1Index(l1, key) == CHOOSE i \in 1..Len(l1) : l1[i].key = key
L1Entry(l1, key) == l1[L1Index(l1, key)].entry

RemoveAt(s, i) == [j \in 1..(Len(s) - 1) |-> IF j < i THEN s[j] ELSE s[j + 1]]

(***************************************************************************)
(* CacheManager helpers (caching.py)                                       *)
(***************************************************************************)
\* OrderedDict.move_to_end(key)
MoveToEnd(l1, key) ==
    LET i == L1Index(l1, key) IN Append(RemoveAt(l1, i), l1[i])

\* _check_l1: on a hit the key becomes the most recent one and a shallow
\* copy of the entry is returned with _cache_info.source = L1_MEMORY.
_check_l1_hit(l1, key) == key \in L1Keys(l1)

_check_l1_result(l1, key) ==
    LET e == L1Entry(l1, key) IN
    [source |-> "L1_MEMORY", data |-> e.data, metadata |-> e.metadata,
     dataPipe |-> e.dataPipe, pipe |-> e.pipe,
     fields_found |-> 0, fields_requested |-> 0]

\* diskcache get: None when the key is absent.
DiskGet(store, key) == IF key \in DOMAIN store THEN store[key] ELSE Null

\* _check_l2: the unpickled entry gets _cache_info.source = L2_DISK.
_check_l2_hit(l2, key) == key \in DOMAIN l2

_check_l2_entry(l2, key) == [l2[key] EXCEPT !.info = "L2_DISK"]

EntryResult(e, source) ==
    [source |-> source, data |-> e.data, metadata |-> e.metadata,
     dataPipe |-> e.dataPipe, pipe |-> e.pipe,
     fields_found |-> 0, fields_requested |-> 0]

\* Variants of _add_to_l1 with a plausible slip: no eviction; an existing key
\* keeps its old entry; popitem() without last=False pops the newest item.
_add_to_l1_no_evict(l1, key, entry) ==
    IF key \in L1Keys(l1)
    THEN [l1 EXCEPT ![L1Index(l1, key)].entry = entry]
    ELSE Append(l1, [key |-> key, entry |-> entry])

_add_to_l1_keep_old(l1, key, entry) ==
    LET assigned ==
            IF key \in L1Keys(l1) THEN l1
            ELSE Append(l1, [key |-> key, entry |-> entry])
    IN IF Len(assigned) > L1_MEMORY_MAX_SIZE THEN Tail(assigned) ELSE assigned

_add_to_l1_pop_newest(l1, key, entry) ==
    LET assigned ==
            IF key \in L1Keys(l1)
            THEN [l1 EXCEPT ![L1Index(l1, key)].entry = entry]
            ELSE Append(l1, [key |-> key, entry |-> entry])
    IN IF Len(assigned) > L1_MEMORY_MAX_SIZE
       THEN SubSeq(assigned, 1, Len(assigned) - 1) ELSE assigned

\* _add_to_l1: assignment keeps the position of a key that is already
\* present; a new key is appended; the oldest item is popped when the size
\* exceeds the maximum.
_add_to_l1(l1, key, entry) ==
    LET assigned ==
            IF key \in L1Keys(l1)
            THEN [l1 EXCEPT ![L1Index(l1, key)].entry = entry]
            ELSE Append(l1, [key |-> key, entry |-> entry])
    IN IF Len(assigned) > L1_MEMORY_MAX_SIZE THEN Tail(assigned) ELSE assigned

\* Variant of the loop that leaves a field that was not found out of
\* partial_data instead of recording None for it.
RECURSIVE L3Scan_omit_missing(_, _, _, _, _)
L3Scan_omit_missing(l3, pdf_bytes, label, keys, acc) ==
    IF keys = <<>> THEN acc
    ELSE LET field_name == Head(keys)
             field_value == DiskGet(l3, generate_l3_field_key(pdf_bytes, label, field_name))
             data1 == [f \in DOMAIN acc.partial_data \cup {field_name} |->
                          IF f = field_name THEN field_value ELSE acc.partial_data[f]]
         IN L3Scan_omit_missing(l3, pdf_bytes, label, Tail(keys),
                   IF field_value # Null
                   THEN [partial_data |-> data1, found_fields |-> acc.found_fields + 1]
                   ELSE acc)

\* _check_l3_partial: the loop over schema.keys().
RECURSIVE L3Scan(_, _, _, _, _)
L3Scan(l3, pdf_bytes, label, keys, acc) ==
    IF keys = <<>> THEN acc
    ELSE LET field_name == Head(keys)
             field_value == DiskGet(l3, generate_l3_field_key(pdf_bytes, label, field_name))
             data1 == [f \in DOMAIN acc.partial_data \cup {field_name} |->
                          IF f = field_name THEN field_value ELSE acc.partial_data[f]]
         IN L3Scan(l3, pdf_bytes, label, Tail(keys),
                   [partial_data |-> data1,
                    found_fields |-> IF field_value # Null
                                     THEN acc.found_fields + 1 ELSE acc.found_fields])

\* Variant of the return rule that drops "and not all found".
_check_l3_partial_any_found(l3, pdf_bytes, label, schema) ==
    LET r == L3Scan(l3, pdf_bytes, label, SchemaKeys(schema),
                    [partial_data |-> EmptyMap, found_fields |-> 0])
    IN IF r.found_fields > 0
       THEN [source |-> "L3_PARTIAL", data |-> r.partial_data, metadata |-> NoMeta,
             dataPipe |-> FALSE, pipe |-> NoMeta,
             fields_found |-> r.found_fields, fields_requested |-> Len(schema)]
       ELSE NoneResult

\* Return rule: at least one field found and not all of them.
_check_l3_partial(l3, pdf_bytes, label, schema) ==
    LET r == L3Scan(l3, pdf_bytes, label, SchemaKeys(schema),
                    [partial_data |-> EmptyMap, found_fields |-> 0])
    IN IF r.found_fields > 0 /\ r.found_fields < Len(schema)
       THEN [source |-> "L3_PARTIAL", data |-> r.partial_data, metadata |-> NoMeta,
             dataPipe |-> FALSE, pipe |-> NoMeta,
             fields_found |-> r.found_fields, fields_requested |-> Len(schema)]
       ELSE NoneResult

\* _store_l3_fields: one disk entry per field whose value is not None.
\* Variant without the "is not None" test.
StoredFields_all(result_data) == DOMAIN result_data

StoredFields(result_data) == {f \in DOMAIN result_data : result_data[f] # Null}

_store_l3_fields(l3, pdf_bytes, label, result_data) ==
    LET new == {generate_l3_field_key(pdf_bytes, label, f) : f \in StoredFields(result_data)}
    IN [k \in DOMAIN l3 \cup new |->
           IF k \in new THEN result_data[k[4]] ELSE l3[k]]

DiskSet(store, key, value) ==
    [k \in DOMAIN store \cup {key} |-> IF k = key THEN value ELSE store[k]]

Bump(st, counter) == [st EXCEPT ![counter] = @ + 1]

(***************************************************************************)
(* CacheManager.get as a function of the cache state: the new state and    *)
(* the returned value.                                                     *)
(***************************************************************************)
\* A get that also puts a partial result into Tier-1.
CacheGet_promote_partial(c, pdf_bytes, label, schema) ==
    LET full_key == generate_l1_l2_key(pdf_bytes, label, schema)
        st1 == Bump(c.stats, "total_requests")
        l3_result == _check_l3_partial(c.l3, pdf_bytes, label, schema)
    IN IF _check_l1_hit(c.l1, full_key)
       THEN [l1 |-> MoveToEnd(c.l1, full_key), l2 |-> c.l2, l3 |-> c.l3,
             stats |-> Bump(st1, "l1_hits"),
             result |-> _check_l1_result(c.l1, full_key)]
       ELSE IF _check_l2_hit(c.l2, full_key)
       THEN [l1 |-> _add_to_l1(c.l1, full_key, _check_l2_entry(c.l2, full_key)),
             l2 |-> c.l2, l3 |-> c.l3,
             stats |-> Bump(st1, "l2_hits"),
             result |-> EntryResult(_check_l2_entry(c.l2, full_key), "L2_DISK")]
       ELSE IF l3_result.source = "L3_PARTIAL"
       THEN [l1 |-> _add_to_l1(c.l1, full_key, NewEntry(l3_result.data, NoMeta)),
             l2 |-> c.l2, l3 |-> c.l3,
             stats |-> Bump(st1, "l3_hits"), result |-> l3_result]
       ELSE [l1 |-> c.l1, l2 |-> c.l2, l3 |-> c.l3,
             stats |-> Bump(st1, "misses"), result |-> NoneResult]

\* A get that writes the entry of a Tier-2 hit back to the disk with its
\* _cache_info.
CacheGet_write_back(c, pdf_bytes, label, schema) ==
    LET full_key == generate_l1_l2_key(pdf_bytes, label, schema)
        st1 == Bump(c.stats, "total_requests")
        l3_result == _check_l3_partial(c.l3, pdf_bytes, label, schema)
    IN IF _check_l1_hit(c.l1, full_key)
       THEN [l1 |-> MoveToEnd(c.l1, full_key), l2 |-> c.l2, l3 |-> c.l3,
             stats |-> Bump(st1, "l1_hits"),
             result |-> _check_l1_result(c.l1, full_key)]
       ELSE IF _check_l2_hit(c.l2, full_key)
       THEN [l1 |-> _add_to_l1(c.l1, full_key, _check_l2_entry(c.l2, full_key)),
             l2 |-> DiskSet(c.l2, full_key,
                            [_check_l2_entry(c.l2, full_key) EXCEPT !.info = "L2_DISK"]),
             l3 |-> c.l3,
             stats |-> Bump(st1, "l2_hits"),
             result |-> EntryResult(_check_l2_entry(c.l2, full_key), "L2_DISK")]
       ELSE IF l3_result.source = "L3_PARTIAL"
       THEN [l1 |-> c.l1, l2 |-> c.l2, l3 |-> c.l3,
             stats |-> Bump(st1, "l3_hits"), result |-> l3_result]
       ELSE [l1 |-> c.l1, l2 |-> c.l2, l3 |-> c.l3,
             stats |-> Bump(st1, "misses"), result |-> NoneResult]

\* A get that counts a Tier-2 hit as a Tier-1 hit as well.
CacheGet_count_promotion(c, pdf_bytes, label, schema) ==
    LET full_key == generate_l1_l2_key(pdf_bytes, label, schema)
        st1 == Bump(c.stats, "total_requests")
        l3_result == _check_l3_partial(c.l3, pdf_bytes, label, schema)
    IN IF _check_l1_hit(c.l1, full_key)
       THEN [l1 |-> MoveToEnd(c.l1, full_key), l2 |-> c.l2, l3 |-> c.l3,
             stats |-> Bump(st1, "l1_hits"),
             result |-> _check_l1_result(c.l1, full_key)]
       ELSE IF _check_l2_hit(c.l2, full_key)
       THEN [l1 |-> _add_to_l1(c.l1, full_key, _check_l2_entry(c.l2, full_key)),
             l2 |-> c.l2, l3 |-> c.l3,
             stats |-> Bump(Bump(st1, "l2_hits"), "l1_hits"),
             result |-> EntryResult(_check_l2_entry(c.l2, full_key), "L2_DISK")]
       ELSE IF l3_result.source = "L3_PARTIAL"
       THEN [l1 |-> c.l1, l2 |-> c.l2, l3 |-> c.l3,
             stats |-> Bump(st1, "l3_hits"), result |-> l3_result]
       ELSE [l1 |-> c.l1, l2 |-> c.l2, l3 |-> c.l3,
             stats |-> Bump(st1, "misses"), result |-> NoneResult]

CacheGet(c, pdf_bytes, label, schema) ==
    LET full_key == generate_l1_l2_key(pdf_bytes, label, schema)
        st1 == Bump(c.stats, "total_requests")
        l3_result == _check_l3_partial(c.l3, pdf_bytes, label, schema)
    IN IF _check_l1_hit(c.l1, full_key)
       THEN [l1 |-> MoveToEnd(c.l1, full_key), l2 |-> c.l2, l3 |-> c.l3,
             stats |-> Bump(st1, "l1_hits"),
             result |-> _check_l1_result(c.l1, full_key)]
       ELSE IF _check_l2_hit(c.l2, full_key)
       THEN [l1 |-> _add_to_l1(c.l1, full_key, _check_l2_entry(c.l2, full_key)),
             l2 |-> c.l2, l3 |-> c.l3,
             stats |-> Bump(st1, "l2_hits"),
             result |-> EntryResult(_check_l2_entry(c.l2, full_key), "L2_DISK")]
       ELSE IF l3_result.source = "L3_PARTIAL"
       THEN [l1 |-> c.l1, l2 |-> c.l2, l3 |-> c.l3,
             stats |-> Bump(st1, "l3_hits"), result |-> l3_result]
       ELSE [l1 |-> c.l1, l2 |-> c.l2, l3 |-> c.l3,
             stats |-> Bump(st1, "misses"), result |-> NoneResult]

(***************************************************************************)
(* CacheManager.set as a function of the cache state.                      *)
(***************************************************************************)
CacheSet(c, pdf_bytes, label, schema, result_data, exec_metadata) ==
    LET full_key == generate_l1_l2_key(pdf_bytes, label, schema)
        cache_entry == NewEntry(result_data, exec_metadata)
    IN [l1 |-> _add_to_l1(c.l1, full_key, cache_entry),
        l2 |-> DiskSet(c.l2, full_key, cache_entry),
        l3 |-> _store_l3_fields(c.l3, pdf_bytes, label, result_data),
        stats |-> c.stats]

CacheState == [l1 |-> l1_memory_cache, l2 |-> l2_disk_cache, l3 |-> l3_fields,
               stats |-> stats]

InstallCache(c) ==
    /\ l1_memory_cache' = c.l1
    /\ l2_disk_cache' = c.l2
    /\ l3_fields' = c.l3
    /\ stats' = c.stats

(***************************************************************************)
(* Documents.  The tokeniser (_get_rich_elements) yields one element per   *)
(* text span: trimmed text, upper-left x and y, and the page size.  The    *)
(* model fixes the token list of each PDF; all pages are 612 x 792.        *)
(***************************************************************************)
PAGE_WIDTH_FALLBACK == 612
PAGE_HEIGHT_FALLBACK == 792

Elem(text, x, y) ==
    [text |-> text, x |-> x, y |-> y,
     page_width |-> PAGE_WIDTH_FALLBACK, page_height |-> PAGE_HEIGHT_FALLBACK]

PdfTokens(pdf_bytes) ==
    CASE pdf_bytes = 1 ->
            <<Elem("Nome:", 100, 200), Elem("JOANA", 200, 200),
              Elem("CPF:", 100, 250), Elem("123.456.789-00", 200, 250)>>
      [] pdf_bytes = 2 ->
            <<Elem("Nome:", 100, 200), Elem("MARIA", 200, 200),
              Elem("CPF:", 100, 250), Elem("987.654.321-00", 200, 250)>>
      [] OTHER ->
            <<Elem("Total", 100, 100), Elem("R$ 10,00", 300, 100)>>

\* What a correct reading of the document gives for a field.
TrueValue(pdf_bytes, field_name) ==
    CASE pdf_bytes = 1 /\ field_name = "nome" -> "JOANA"
      [] pdf_bytes = 1 /\ field_name = "cpf" -> "123.456.789-00"
      [] pdf_bytes = 2 /\ field_name = "nome" -> "MARIA"
      [] pdf_bytes = 2 /\ field_name = "cpf" -> "987.654.321-00"
      [] OTHER -> Null

(***************************************************************************)
(* String primitives, tabulated for the texts of the model by evaluating   *)
(* the Python expressions of the source on them.                           *)
(***************************************************************************)
\* StructuralMatcher._normalize_text: lower case, no diacritics, no final ':'.
_normalize_text(text) ==
    CASE text = "Nome:" -> "nome"
      [] text = "CPF:" -> "cpf"
      [] text = "JOANA" -> "joana"
      [] text = "MARIA" -> "maria"
      [] text = "Total" -> "total"
      [] text = "R$ 10,00" -> "r$ 10,00"
      [] OTHER -> text

\* re.fullmatch(r'[\d\.,\-\/R\$ %]+', text)
NumericLikeTexts == {"123.456.789-00", "987.654.321-00", "R$ 10,00"}
\* re.search(r':\s*$', text)
ColonEndTexts == {"Nome:", "CPF:"}
\* re.fullmatch(r'\d+', text.strip())
AllDigitTexts == {}
\* normalized_text.split()
Words(normalized) ==
    CASE normalized = "r$ 10,00" -> {"r$", "10,00"}
      [] OTHER -> {normalized}
\* len(normalized_text)
TextLen(normalized) ==
    CASE normalized \in {"nome"} -> 4
      [] normalized \in {"cpf"} -> 3
      [] normalized \in {"joana", "maria", "total"} -> 5
      [] normalized \in {"r$ 10,00"} -> 8
      [] OTHER -> 14
\* share of digits in the normalised text above 0.2
DigitHeavy == {"123.456.789-00", "987.654.321-00", "r$ 10,00"}
\* re.search(r'\d', normalized_text)
HasDigit == {"123.456.789-00", "987.654.321-00", "r$ 10,00"}
\* number of domain keywords contained in the normalised text
KeywordCount(normalized) ==
    CASE normalized \in {"nome", "cpf", "total"} -> 1
      [] OTHER -> 0
StopWords == {"de", "do", "da", "dos", "das", "e", "ou", "para", "com", "em", "por"}

\* text in elem['text'] (substring test) for a value and a token text: no
\* text of the model is a proper part of another one.
IsSubstring(needle, hay) == needle = hay

(***************************************************************************)
(* StructuralMatcher (struct_matcher.py)                                   *)
(***************************************************************************)
\* 0.80, in hundredths.
JACCARD_MATCH_THRESHOLD == 80

KNOWN_LABELS ==
    {"nome", "inscricao", "seccional", "subsecao", "categoria", "endereço",
     "telefone", "situacao", "data", "sistema", "produto", "valor",
     "quantidade", "tipo", "cidade", "referencia", "cpf", "cnpj", "cep",
     "email", "hora", "total", "subtotal", "descontos", "emissao",
     "vencimento", "pagamento", "banco", "agencia", "conta", "favorecido",
     "documento", "numero do documento", "endereco de entrega",
     "forma de pagamento"}

\* token_similarity(a, b) > 0.75
TooSimilar(a, b) ==
    LET ta == Words(a)
        tb == Words(b)
    IN 4 * Cardinality(ta \cap tb) > 3 * Cardinality(ta \cup tb)

\* The heuristic score of a candidate label, in tenths.  The tokeniser sets
\* no 'category', so the category bonus never applies.
CandidateScore(normalized) ==
    LET tokens == Words(normalized)
        n == Cardinality(tokens)
    IN 20 * KeywordCount(normalized)
       + (IF n = 1 THEN 12 ELSE IF n <= 3 THEN 8 ELSE 0)
       - (IF normalized \in HasDigit THEN 20 ELSE 0)
       - (IF 2 * Cardinality(tokens \cap StopWords) > n THEN 10 ELSE 0)

\* The loop of extract_signature over the elements.
RECURSIVE SignatureScan(_, _)
SignatureScan(elements, acc) ==
    IF elements = <<>> THEN acc
    ELSE LET text == Head(elements).text
             normalized_text == _normalize_text(text)
             rest == Tail(elements)
         IN IF normalized_text \in KNOWN_LABELS
            THEN SignatureScan(rest, [acc EXCEPT !.signature = @ \cup {normalized_text}])
            ELSE IF \/ text \in NumericLikeTexts
                    \/ Cardinality(Words(normalized_text)) > 4
                    \/ ~(2 <= TextLen(normalized_text) /\ TextLen(normalized_text) <= 50)
                    \/ normalized_text \in DigitHeavy
                    \/ \E sg \in acc.signature : TooSimilar(normalized_text, sg)
            THEN SignatureScan(rest, acc)
            ELSE IF text \in ColonEndTexts
            THEN SignatureScan(rest, [acc EXCEPT !.signature = @ \cup {normalized_text}])
            ELSE IF CandidateScore(normalized_text) > 0
            THEN SignatureScan(rest, [acc EXCEPT !.candidates =
                        Append(@, <<normalized_text, CandidateScore(normalized_text)>>)])
            ELSE SignatureScan(rest, acc)

\* candidates.sort(key=(-score, len(label))); candidates[0]
BestCandidate(candidates) ==
    LET Better(i, j) ==
            \/ candidates[i][2] > candidates[j][2]
            \/ /\ candidates[i][2] = candidates[j][2]
               /\ \/ TextLen(candidates[i][1]) < TextLen(candidates[j][1])
                  \/ TextLen(candidates[i][1]) = TextLen(candidates[j][1]) /\ i <= j
    IN candidates[CHOOSE i \in 1..Len(candidates) : \A j \in 1..Len(candidates) : Better(i, j)]

extract_signature(elements) ==
    LET r == SignatureScan(elements, [signature |-> {}, candidates |-> <<>>])
    IN IF r.candidates # <<>>
          /\ BestCandidate(r.candidates)[2] >= 15
          /\ BestCandidate(r.candidates)[1] \notin KNOWN_LABELS
          /\ BestCandidate(r.candidates)[1] \notin r.signature
       THEN r.signature \cup {BestCandidate(r.candidates)[1]}
       ELSE r.signature

\* Python values carry their type: the matcher is handed either a set of
\* labels or the list of elements.
PySet(v) == [pytype |-> "set", value |-> v]
PyList(v) == [pytype |-> "list", value |-> v]

\* _calculate_jaccard_similarity, in hundredths scaled by the union size:
\* the pair <<|intersection|, |union|>>; 0/0 stands for the score 0.0.
_calculate_jaccard_similarity(set1, set2) ==
    <<Cardinality(set1 \cap set2), Cardinality(set1 \cup set2)>>

\* check_similarity(new_signature, template_signature_list).  The call
\* set1.intersection(set2) raises AttributeError when new_signature is a
\* list.
check_similarity_strictly_above(new_signature, template_signature_list) ==
    LET score == _calculate_jaccard_similarity(new_signature.value, template_signature_list)
    IN [raised |-> FALSE, error |-> "-",
        is_match |-> score[2] # 0 /\ 100 * score[1] > JACCARD_MATCH_THRESHOLD * score[2],
        score |-> score]

check_similarity(new_signature, template_signature_list) ==
    IF new_signature.pytype # "set"
    THEN [raised |-> TRUE, error |-> "AttributeError", is_match |-> FALSE, score |-> <<0, 0>>]
    ELSE LET score == _calculate_jaccard_similarity(new_signature.value,
                                                    template_signature_list)
         IN [raised |-> FALSE, error |-> "-",
             is_match |-> score[2] # 0 /\ 100 * score[1] >= JACCARD_MATCH_THRESHOLD * score[2],
             score |-> score]

(***************************************************************************)
(* PatternBuilder (pattern_builder.py).  Confidences are in units of 1/600 *)
(* so that the mean of two or three of them is an integer.                 *)
(***************************************************************************)
Conf(hundredths) == 6 * hundredths

\* COMMON_PATTERNS in dict order: name, confidence, the texts of the model
\* that re.search(regex, text) matches.
COMMON_PATTERNS ==
    <<[name |-> "cpf", confidence |-> Conf(100),
       matches |-> {"123.456.789-00", "987.654.321-00"}],
      [name |-> "cnpj", confidence |-> Conf(100), matches |-> {}],
      [name |-> "email", confidence |-> Conf(100), matches |-> {}],
      [name |-> "telefone", confidence |-> Conf(100), matches |-> {}],
      [name |-> "cep", confidence |-> Conf(100), matches |-> {}],
      [name |-> "valor_monetario", confidence |-> Conf(100), matches |-> {"R$ 10,00"}],
      [name |-> "data", confidence |-> Conf(100), matches |-> {}],
      [name |-> "numero_inscricao", confidence |-> Conf(100), matches |-> {}],
      [name |-> "numero", confidence |-> Conf(70),
       matches |-> {"123.456.789-00", "987.654.321-00", "R$ 10,00"}],
      [name |-> "texto", confidence |-> Conf(70),
       matches |-> {"Nome:", "JOANA", "CPF:", "MARIA", "Total", "null", "XYZ"}],
      [name |-> "outros", confidence |-> Conf(70),
       matches |-> {"Nome:", "JOANA", "CPF:", "MARIA", "Total", "null", "XYZ",
                    "123.456.789-00", "987.654.321-00", "R$ 10,00"}]>>

\* pattern_type in field_name.lower()
PatternInFieldName(pattern_type, field_name) == pattern_type = "cpf" /\ field_name = "cpf"

\* re.search(regex, text) for the regex of the named pattern
RegexSearch(pattern_type, text) ==
    \E i \in 1..Len(COMMON_PATTERNS) :
        COMMON_PATTERNS[i].name = pattern_type /\ text \in COMMON_PATTERNS[i].matches

Y_TOLERANCE_SAME_LINE == 10
X_TOLERANCE_SAME_COLUMN == 20

Abs(n) == IF n < 0 THEN 0 - n ELSE n

NoElem == [text |-> Null, x |-> 0, y |-> 0, page_width |-> 0, page_height |-> 0]

\* _find_element_by_text: exact match first, then substring; the first
\* element in list order.
_find_element_by_text(text, elements) ==
    LET exact == {i \in 1..Len(elements) : elements[i].text = text}
        part == {i \in 1..Len(elements) : IsSubstring(text, elements[i].text)}
        First(S) == CHOOSE i \in S : \A j \in S : i <= j
    IN IF exact # {} THEN elements[First(exact)]
       ELSE IF part # {} THEN elements[First(part)]
       ELSE NoElem

\* The first element in list order with the smallest distance among idx.
Closest(elements, idx, dist) ==
    IF idx = {} THEN NoElem
    ELSE elements[CHOOSE i \in idx :
                    \A j \in idx : dist[i] < dist[j] \/ (dist[i] = dist[j] /\ i <= j)]

\* _find_anchor_left: non-numeric, same line, strictly to the left, nearest.
_find_anchor_left(value_element, elements) ==
    LET D == [i \in 1..Len(elements) |-> value_element.x - elements[i].x]
    IN Closest(elements,
               {i \in 1..Len(elements) :
                   /\ elements[i].text \notin AllDigitTexts
                   /\ Abs(elements[i].y - value_element.y) <= Y_TOLERANCE_SAME_LINE
                   /\ elements[i].x < value_element.x},
               D)

\* _find_anchor_above: non-numeric, strictly above, same column, nearest.
_find_anchor_above(value_element, elements) ==
    LET D == [i \in 1..Len(elements) |-> value_element.y - elements[i].y]
    IN Closest(elements,
               {i \in 1..Len(elements) :
                   /\ elements[i].text \notin AllDigitTexts
                   /\ elements[i].y < value_element.y
                   /\ Abs(elements[i].x - value_element.x) <= X_TOLERANCE_SAME_COLUMN},
               D)

NoRule == [type |-> "-", data |-> [reason |-> "-"], confidence |-> 0]

\* _learn_regex_pattern: the first catalogue entry whose name is part of
\* the field name or whose regex matches the value.
_learn_regex_pattern(field_name, field_value) ==
    LET hits == {i \in 1..Len(COMMON_PATTERNS) :
                    \/ PatternInFieldName(COMMON_PATTERNS[i].name, field_name)
                    \/ RegexSearch(COMMON_PATTERNS[i].name, field_value)}
        first == CHOOSE i \in hits : \A j \in hits : i <= j
    IN IF hits = {} THEN NoRule
       ELSE [type |-> "regex",
             data |-> [pattern |-> COMMON_PATTERNS[first].name,
                       regex |-> COMMON_PATTERNS[first].name],
             confidence |-> COMMON_PATTERNS[first].confidence]

_learn_context_pattern(field_value, elements) ==
    LET value_element == _find_element_by_text(field_value, elements)
        anchor_left == _find_anchor_left(value_element, elements)
        anchor_above == _find_anchor_above(value_element, elements)
    IN IF value_element = NoElem THEN NoRule
       ELSE IF anchor_left # NoElem
       THEN [type |-> "relative_context",
             data |-> [anchor_text |-> anchor_left.text, direction |-> "right"],
             confidence |-> Conf(80)]
       ELSE IF anchor_above # NoElem
       THEN [type |-> "relative_context",
             data |-> [anchor_text |-> anchor_above.text, direction |-> "below"],
             confidence |-> Conf(80)]
       ELSE NoRule

\* _learn_position_pattern: rel_x = x / w and rel_y = y / h, kept as the
\* fractions <<x, w>> and <<y, h>>; tolerance 0.05 in hundredths.
_learn_position_pattern(value_element) ==
    IF value_element.page_width = 0 \/ value_element.page_height = 0 THEN NoRule
    ELSE [type |-> "position",
          data |-> [rel_x |-> <<value_element.x, value_element.page_width>>,
                    rel_y |-> <<value_element.y, value_element.page_height>>,
                    tolerance |-> 5],
          confidence |-> Conf(60)]

RECURSIVE SumConfidence(_)
SumConfidence(rules) ==
    IF rules = <<>> THEN 0 ELSE Head(rules).confidence + SumConfidence(Tail(rules))

Min(a, b) == IF a <= b THEN a ELSE b

\* learn_rule_for_field: the triple (rule_type, rule_data, confidence).
learn_rule_for_field(field_name, field_value, elements) ==
    LET value_element == _find_element_by_text(field_value, elements)
        IsRule(r) == r # NoRule
        found_rules == SelectSeq(<<_learn_regex_pattern(field_name, field_value),
                                   _learn_context_pattern(field_value, elements),
                                   _learn_position_pattern(value_element)>>, IsRule)
    IN IF field_value = Null \/ field_value = "null"
       THEN [rule_type |-> "none", rule_data |-> [reason |-> "value_is_null"],
             confidence |-> Conf(90)]
       ELSE IF value_element = NoElem
       THEN [rule_type |-> "none", rule_data |-> [reason |-> "value_not_found_in_elements"],
             confidence |-> Conf(10)]
       ELSE IF Len(found_rules) > 1
       THEN [rule_type |-> "hybrid", rule_data |-> [rules |-> found_rules],
             confidence |-> Min(SumConfidence(found_rules) \div Len(found_rules) + Conf(20),
                                Conf(99))]
       ELSE IF Len(found_rules) = 1
       THEN [rule_type |-> found_rules[1].type, rule_data |-> found_rules[1].data,
             confidence |-> found_rules[1].confidence]
       ELSE [rule_type |-> "none", rule_data |-> [reason |-> "no_pattern_found"],
             confidence |-> Conf(10)]

(***************************************************************************)
(* TemplateDatabase (database.py).  A table is the sequence of its rows in *)
(* insertion order.  structural_signature is stored as the JSON array of   *)
(* the sorted labels, which is one-to-one with the set of labels; the      *)
(* model keeps the set.                                                    *)
(***************************************************************************)
NoTemplate == [id |-> 0, label |-> Null, sample_count |-> 0, structural_signature |-> {}]

\* A lookup that never finds a template.
find_template_by_label_none(db, label) == NoTemplate

\* SELECT * FROM templates WHERE label = ? LIMIT 1
find_template_by_label(db, label) ==
    LET rows == {i \in 1..Len(db.templates) : db.templates[i].label = label}
    IN IF rows = {} THEN NoTemplate
       ELSE db.templates[CHOOSE i \in rows : \A j \in rows : i <= j]

\* INSERT INTO templates ... sample_count 1; returns the new row id.
create_template(db, label, structural_signature) ==
    [db EXCEPT !.templates =
        Append(@, [id |-> Len(db.templates) + 1, label |-> label, sample_count |-> 1,
                   structural_signature |-> structural_signature])]

\* An update that leaves sample_count as it is.
update_template_signature_keep_count(db, template_id, new_signature) ==
    [db EXCEPT !.templates =
        [i \in 1..Len(db.templates) |->
            IF db.templates[i].id = template_id
            THEN [db.templates[i] EXCEPT !.structural_signature = new_signature]
            ELSE db.templates[i]]]

\* An update that adds the new labels to the stored signature.
update_template_signature_union(db, template_id, new_signature) ==
    [db EXCEPT !.templates =
        [i \in 1..Len(db.templates) |->
            IF db.templates[i].id = template_id
            THEN [db.templates[i] EXCEPT !.structural_signature = @ \cup new_signature,
                                         !.sample_count = @ + 1]
            ELSE db.templates[i]]]

\* UPDATE templates SET structural_signature = ?, sample_count = sample_count + 1
update_template_signature(db, template_id, new_signature) ==
    [db EXCEPT !.templates =
        [i \in 1..Len(db.templates) |->
            IF db.templates[i].id = template_id
            THEN [db.templates[i] EXCEPT !.structural_signature = new_signature,
                                         !.sample_count = @ + 1]
            ELSE db.templates[i]]]

\* An INSERT without the DELETE before it.
add_extraction_rule_insert_only(db, template_id, field_name, rule_type, rule_data, confidence) ==
    [db EXCEPT !.extraction_rules =
          Append(@, [template_id |-> template_id, field_name |-> field_name,
                     rule_type |-> rule_type, rule_data |-> rule_data,
                     confidence |-> confidence])]

\* DELETE the rule of (template_id, field_name), then INSERT the new one.
\* INSERT OR IGNORE: a rule already stored for the field is kept.
add_extraction_rule_keep_existing(db, template_id, field_name, rule_type, rule_data, confidence) ==
    LET Same(r) == r.template_id = template_id /\ r.field_name = field_name
    IN IF SelectSeq(db.extraction_rules, Same) # <<>> THEN db
       ELSE [db EXCEPT !.extraction_rules =
               Append(@, [template_id |-> template_id, field_name |-> field_name,
                          rule_type |-> rule_type, rule_data |-> rule_data,
                          confidence |-> confidence])]

add_extraction_rule(db, template_id, field_name, rule_type, rule_data, confidence) ==
    LET Other(r) == ~(r.template_id = template_id /\ r.field_name = field_name)
    IN [db EXCEPT !.extraction_rules =
          Append(SelectSeq(@, Other),
                 [template_id |-> template_id, field_name |-> field_name,
                  rule_type |-> rule_type, rule_data |-> rule_data,
                  confidence |-> confidence])]

\* SELECT * FROM extraction_rules WHERE template_id = ?
get_extraction_rules(db, template_id) ==
    LET Mine(r) == r.template_id = template_id
    IN SelectSeq(db.extraction_rules, Mine)

(***************************************************************************)
(* RuleExecutor (rule_executor.py).  Scores are in tenths.  Distances are  *)
(* compared through their squares; with every page 612 x 792 the squared   *)
(* distance between relative positions is                                  *)
(*   (dx^2 * 22^2 + dy^2 * 17^2) / (36 * 17 * 22)^2                        *)
(* and DistSq is its numerator.                                            *)
(***************************************************************************)
STRONG_REGEX_PATTERNS == {"cpf", "cnpj", "email", "telefone", "cep"}
POSITION_SCORE == 9
CONTEXT_SCORE == 9
STRONG_REGEX_SCORE == 10
\* dist <= 0.05  <=>  DistSq <= 0.0025 * (36 * 17 * 22)^2 = 453198.24
POSITION_TOLERANCE_SQ == 453198
Infinity == 2000000000

\* text.lower().strip() in elem['text'].lower().strip(): no text of the
\* model is part of another one, ignoring case.
IsSubstringIgnoreCase(needle, hay) == needle = hay

DistSq(elem, pos_rule) ==
    LET dx == elem.x - pos_rule.rel_x[1]
        dy == elem.y - pos_rule.rel_y[1]
    IN dx * dx * 484 + dy * dy * 289

FirstOfType(rules, type) ==
    LET idx == {i \in 1..Len(rules) : rules[i].type = type}
    IN IF idx = {} THEN NoRule ELSE rules[CHOOSE i \in idx : \A j \in idx : i <= j]

MinIndex(S) == CHOOSE i \in S : \A j \in S : i <= j

\* RuleExecutor._find_element_by_text: index of the anchor, 0 when absent.
AnchorIndex(text, elements) ==
    LET exact == {i \in 1..Len(elements) : elements[i].text = text}
        part == {i \in 1..Len(elements) : IsSubstringIgnoreCase(text, elements[i].text)}
    IN IF exact # {} THEN MinIndex(exact)
       ELSE IF part # {} THEN MinIndex(part) ELSE 0

\* _find_element_to_right / _find_element_below: index of the nearest
\* element in the direction, 0 when there is none.
_find_element_by_direction(anchor, direction, elements) ==
    LET right == {i \in 1..Len(elements) :
                     /\ elements[i].x > elements[anchor].x
                     /\ Abs(elements[i].y - elements[anchor].y) <= Y_TOLERANCE_SAME_LINE}
        below == {i \in 1..Len(elements) :
                     /\ elements[i].y > elements[anchor].y
                     /\ Abs(elements[i].x - elements[anchor].x) <= X_TOLERANCE_SAME_COLUMN}
        DR(i) == elements[i].x - elements[anchor].x
        DB(i) == elements[i].y - elements[anchor].y
        Nearest(S, D(_)) ==
            IF S = {} THEN 0
            ELSE CHOOSE i \in S : \A j \in S : D(i) < D(j) \/ (D(i) = D(j) /\ i <= j)
    IN IF direction = "right" THEN Nearest(right, DR)
       ELSE IF direction = "below" THEN Nearest(below, DB)
       ELSE 0

_find_best_candidate_any_text(rules, elements) ==
    LET pos_rule == FirstOfType(rules, "position")
        rgx_rule == FirstOfType(rules, "regex")
        near == {i \in 1..Len(elements) :
                    pos_rule # NoRule /\ DistSq(elements[i], pos_rule.data) <= POSITION_TOLERANCE_SQ}
    IN IF rgx_rule = NoRule \/ near = {} THEN Null
       ELSE elements[MinIndex(near)].text

\* _find_best_candidate: the text of the best candidate or None.
_find_best_candidate(rules, elements) ==
    LET pos_rule == FirstOfType(rules, "position")
        ctx_rule == FirstOfType(rules, "relative_context")
        rgx_rule == FirstOfType(rules, "regex")
        anchor == IF ctx_rule = NoRule THEN 0
                  ELSE AnchorIndex(ctx_rule.data.anchor_text, elements)
        target == IF anchor = 0 THEN 0
                  ELSE _find_element_by_direction(anchor, ctx_rule.data.direction, elements)
        distance(i) == IF pos_rule = NoRule THEN Infinity
                       ELSE DistSq(elements[i], pos_rule.data)
        score(i) ==
            (IF pos_rule # NoRule /\ distance(i) <= POSITION_TOLERANCE_SQ
             THEN POSITION_SCORE ELSE 0)
            + (IF target = i THEN CONTEXT_SCORE ELSE 0)
            + (IF /\ rgx_rule.data.pattern \in STRONG_REGEX_PATTERNS
                  /\ RegexSearch(rgx_rule.data.regex, elements[i].text)
               THEN STRONG_REGEX_SCORE ELSE 0)
        filtered == {i \in 1..Len(elements) :
                        RegexSearch(rgx_rule.data.regex, elements[i].text) /\ score(i) > 0}
        best == CHOOSE i \in filtered : \A j \in filtered :
                    \/ score(i) > score(j)
                    \/ score(i) = score(j) /\ distance(i) < distance(j)
                    \/ score(i) = score(j) /\ distance(i) = distance(j) /\ i <= j
    IN IF rgx_rule = NoRule THEN Null
       ELSE IF filtered = {} THEN Null
       ELSE elements[best].text

\* execute_all_rules: field name -> value; a later rule for the same field
\* overwrites an earlier one.
RECURSIVE execute_all_rules(_, _)
execute_all_rules(rules, elements) ==
    IF rules = <<>> THEN EmptyMap
    ELSE LET n == Len(rules)
             rule == rules[n]
             before == execute_all_rules(SubSeq(rules, 1, n - 1), elements)
             value == IF rule.rule_type = "hybrid"
                      THEN _find_best_candidate(rule.rule_data.rules, elements)
                      ELSE Null
         IN [f \in DOMAIN before \cup {rule.field_name} |->
                IF f = rule.field_name THEN value ELSE before[f]]

(***************************************************************************)
(* TemplateOrchestrator (template_orchestrator.py)                         *)
(***************************************************************************)
MIN_SAMPLE_THRESHOLD == 2
\* 0.5 in units of 1/600
MIN_RULE_CONFIDENCE_TO_SAVE == 300

\* check_and_use_template: kind "none" is the return value None, kind
\* "data" a field map, kind "raise" an exception leaving the call.  The
\* elements list itself is handed to check_similarity.
check_and_use_template(db, label, elements) ==
    LET template == find_template_by_label(db, label)
        sim == check_similarity(PyList(elements), template.structural_signature)
        rules == get_extraction_rules(db, template.id)
    IN IF template = NoTemplate THEN [kind |-> "none", data |-> EmptyMap]
       ELSE IF template.sample_count < MIN_SAMPLE_THRESHOLD
       THEN [kind |-> "none", data |-> EmptyMap]
       ELSE IF sim.raised THEN [kind |-> "raise", data |-> EmptyMap]
       ELSE IF ~sim.is_match THEN [kind |-> "none", data |-> EmptyMap]
       ELSE IF rules = <<>> THEN [kind |-> "none", data |-> EmptyMap]
       ELSE [kind |-> "data", data |-> execute_all_rules(rules, elements)]

\* llm_data.get(field_name)
DictGet(d, k) == IF k \in DOMAIN d THEN d[k] ELSE Null

\* A loop that saves every learned rule, whatever its confidence.
RECURSIVE LearnRules_save_all(_, _, _, _, _)
LearnRules_save_all(db, template_id, schema, llm_data, elements) ==
    IF schema = <<>> THEN db
    ELSE LET field_name == Head(schema)[1]
             learned == learn_rule_for_field(field_name, DictGet(llm_data, field_name), elements)
             db1 == add_extraction_rule(db, template_id, field_name, learned.rule_type,
                                        learned.rule_data, learned.confidence)
         IN LearnRules_save_all(db1, template_id, Tail(schema), llm_data, elements)

\* A loop that saves a rule only if it can extract something, skipping
\* rules of type none.
RECURSIVE LearnRules_skip_none(_, _, _, _, _)
LearnRules_skip_none(db, template_id, schema, llm_data, elements) ==
    IF schema = <<>> THEN db
    ELSE LET field_name == Head(schema)[1]
             learned == learn_rule_for_field(field_name, DictGet(llm_data, field_name), elements)
             db1 == IF /\ learned.confidence >= MIN_RULE_CONFIDENCE_TO_SAVE
                       /\ learned.rule_type # "none"
                    THEN add_extraction_rule(db, template_id, field_name,
                                             learned.rule_type, learned.rule_data,
                                             learned.confidence)
                    ELSE db
         IN LearnRules_skip_none(db1, template_id, Tail(schema), llm_data, elements)

\* The loop of learn_from_llm_result over schema.items().
RECURSIVE LearnRules(_, _, _, _, _)
LearnRules(db, template_id, schema, llm_data, elements) ==
    IF schema = <<>> THEN db
    ELSE LET field_name == Head(schema)[1]
             learned == learn_rule_for_field(field_name, DictGet(llm_data, field_name), elements)
             db1 == IF learned.confidence >= MIN_RULE_CONFIDENCE_TO_SAVE
                    THEN add_extraction_rule(db, template_id, field_name,
                                             learned.rule_type, learned.rule_data,
                                             learned.confidence)
                    ELSE db
         IN LearnRules(db1, template_id, Tail(schema), llm_data, elements)

\* Learning that stores the signature of the new document in place of the
\* union.
learn_from_llm_result_replace(db, label, schema, llm_data, elements) ==
    LET template == find_template_by_label(db, label)
        new_signature_set == extract_signature(elements)
        db1 == IF template # NoTemplate
               THEN update_template_signature(db, template.id, new_signature_set)
               ELSE create_template(db, label, new_signature_set)
        template_id == IF template # NoTemplate THEN template.id ELSE Len(db.templates) + 1
    IN LearnRules(db1, template_id, schema, llm_data, elements)

\* learn_from_llm_result: find the template, extend or create it, then
\* learn a rule for each field of the schema.
learn_from_llm_result(db, label, schema, llm_data, elements) ==
    LET template == find_template_by_label(db, label)
        new_signature_set == extract_signature(elements)
        db1 == IF template # NoTemplate
               THEN update_template_signature(db, template.id,
                        template.structural_signature \cup new_signature_set)
               ELSE create_template(db, label, new_signature_set)
        template_id == IF template # NoTemplate THEN template.id ELSE Len(db.templates) + 1
    IN LearnRules(db1, template_id, schema, llm_data, elements)

\* get_template_stats: the three COUNT(*) queries and the two constants.
get_template_stats(db) ==
    [total_templates |-> Len(db.templates),
     total_rules |-> Len(db.extraction_rules),
     mature_templates |->
        Cardinality({i \in 1..Len(db.templates) :
                        db.templates[i].sample_count >= MIN_SAMPLE_THRESHOLD}),
     min_sample_threshold |-> MIN_SAMPLE_THRESHOLD,
     min_rule_confidence |-> MIN_RULE_CONFIDENCE_TO_SAVE]

(***************************************************************************)
(* Direct use of the CacheManager: any sequence of get and set calls.      *)
(***************************************************************************)
\* The result_data and exec_metadata handed to set: a complete result of
\* the LLM, and a result of the template with a None value.
Payloads ==
    {[data |-> [f \in {"cpf", "nome"} |-> "v1"],
      metadata |-> [method |-> "llm-full", steps |-> <<"llm-full">>]],
     [data |-> [f \in {"cpf", "nome"} |-> IF f = "cpf" THEN "v2" ELSE Null],
      metadata |-> [method |-> "template", steps |-> <<"template">>]]}

ZeroStats == [l1_hits |-> 0, l2_hits |-> 0, l3_hits |-> 0, misses |-> 0,
              total_requests |-> 0]
ZeroPipelineStats == [total_requests |-> 0, cache_hits_l1_l2 |-> 0, cache_hits_l3 |-> 0,
                      template_hits |-> 0, llm_calls_full |-> 0, llm_calls_fallback |-> 0]

NoOp == [op |-> "init", pdf |-> 0, label |-> "-", schema |-> <<>>, key |-> <<>>,
         data |-> EmptyMap, metadata |-> NoMeta, result |-> NoneResult]

InitCache ==
    /\ l1_memory_cache = <<>>
    /\ l2_disk_cache = EmptyMap
    /\ l3_fields = EmptyMap
    /\ stats = ZeroStats
    /\ last = NoOp
    /\ lastSet = EmptyMap
    /\ set_calls = 0
    /\ templates = <<>>
    /\ extraction_rules = <<>>
    /\ pipeline_stats = ZeroPipelineStats
    /\ requests = 0
    /\ learn_calls = 0
    /\ store_calls = 0

Get(pdf_bytes, label, schema) ==
    /\ stats.total_requests < MaxGets
    /\ LET r == CacheGet(CacheState, pdf_bytes, label, schema) IN
       /\ InstallCache(r)
       /\ last' = [op |-> "get", pdf |-> pdf_bytes, label |-> label, schema |-> schema,
                   key |-> generate_l1_l2_key(pdf_bytes, label, schema),
                   data |-> EmptyMap, metadata |-> NoMeta, result |-> r.result]
    /\ UNCHANGED <<lastSet, set_calls>>
    /\ UNCHANGED pipelineVars

Set(pdf_bytes, label, schema, result_data, exec_metadata) ==
    /\ set_calls < MaxSets
    /\ set_calls' = set_calls + 1
    /\ InstallCache(CacheSet(CacheState, pdf_bytes, label, schema, result_data, exec_metadata))
    /\ last' = [op |-> "set", pdf |-> pdf_bytes, label |-> label, schema |-> schema,
                key |-> generate_l1_l2_key(pdf_bytes, label, schema),
                data |-> result_data, metadata |-> exec_metadata, result |-> NoneResult]
    /\ lastSet' = DiskSet(lastSet, generate_l1_l2_key(pdf_bytes, label, schema),
                          [data |-> result_data, metadata |-> exec_metadata])
    /\ UNCHANGED pipelineVars

DoGet == \E p \in Pdfs, lb \in Labels, s \in RequestSchemas : Get(p, lb, s)
DoSet == \E p \in Pdfs, lb \in Labels, s \in RequestSchemas, w \in Payloads :
            Set(p, lb, s, w.data, w.metadata)

NextCache == DoGet \/ DoSet

SpecCache == InitCache /\ [][NextCache]_vars

(***************************************************************************)
(* Direct use of the CacheManager with the history of Tier-1 kept: after   *)
(* each call, uses lists the keys held by Tier-1 from the least recently   *)
(* used to the most recently used, where a key is used when a get returns  *)
(* its entry from Tier-1, when a Tier-2 hit puts it into Tier-1 and when a *)
(* set writes it; evicted is the set of keys the call removed from Tier-1. *)
(***************************************************************************)
Recency(uses, key, used, kept) ==
    LET Not(k) == k # key
        Kept(k) == k \in kept
    IN SelectSeq(IF used THEN Append(SelectSeq(uses, Not), key) ELSE uses, Kept)

InitTier1 ==
    /\ l1_memory_cache = <<>>
    /\ l2_disk_cache = EmptyMap
    /\ l3_fields = EmptyMap
    /\ stats = ZeroStats
    /\ last = [op |-> "init", key |-> <<>>, n |-> 0, source |-> "-", evicted |-> {},
               uses |-> <<>>]
    /\ lastSet = EmptyMap
    /\ set_calls = 0
    /\ templates = <<>>
    /\ extraction_rules = <<>>
    /\ pipeline_stats = ZeroPipelineStats
    /\ requests = 0
    /\ learn_calls = 0
    /\ store_calls = 0

Tier1Get(pdf_bytes, label, schema) ==
    /\ last.n < MaxTier1Calls
    /\ \E key \in {generate_l1_l2_key(pdf_bytes, label, schema)} :
       \E g \in {CacheGet(CacheState, pdf_bytes, label, schema)} :
         /\ InstallCache(g)
         /\ last' = [op |-> "get", key |-> key, n |-> last.n + 1,
                     source |-> g.result.source,
                     evicted |-> L1Keys(l1_memory_cache) \ L1Keys(g.l1),
                     uses |-> Recency(last.uses, key,
                                      g.result.source \in {"L1_MEMORY", "L2_DISK"},
                                      L1Keys(g.l1))]
    /\ UNCHANGED <<lastSet, set_calls, pipelineVars>>

Tier1Set(pdf_bytes, label, schema, result_data, exec_metadata) ==
    /\ last.n < MaxTier1Calls
    /\ set_calls' = set_calls + 1
    /\ \E key \in {generate_l1_l2_key(pdf_bytes, label, schema)} :
       \E c1 \in {CacheSet(CacheState, pdf_bytes, label, schema, result_data,
                           exec_metadata)} :
         /\ InstallCache(c1)
         /\ last' = [op |-> "set", key |-> key, n |-> last.n + 1, source |-> "-",
                     evicted |-> L1Keys(l1_memory_cache) \ L1Keys(c1.l1),
                     uses |-> Recency(last.uses, key, TRUE, L1Keys(c1.l1))]
         /\ lastSet' = DiskSet(lastSet, key,
                               [data |-> result_data, metadata |-> exec_metadata])
    /\ UNCHANGED pipelineVars

NextTier1 ==
    \/ \E p \in Pdfs, lb \in Labels, s \in RequestSchemas : Tier1Get(p, lb, s)
    \/ \E p \in Pdfs, lb \in Labels, s \in RequestSchemas, w \in Payloads :
          Tier1Set(p, lb, s, w.data, w.metadata)

SpecTier1 == InitTier1 /\ [][NextTier1]_vars

(***************************************************************************)
(* ExtractionPipeline.extract (api_server.py).  One call is one step.  The *)
(* inputs of a call are the request, whether the tokeniser fails, and what *)
(* the LLM does: it fails, it returns text that is not JSON, or it returns *)
(* an object that gives each requested field its true value, null, or      *)
(* leaves the field out.                                                   *)
(***************************************************************************)
LLMAnswers(schema) == [SchemaFieldSet(schema) -> {"value", "null", "omit"}]

\* The parsed LLM output for the schema it was asked for.
LLMData(pdf_bytes, schema, mode, answer) ==
    IF mode # "json" THEN EmptyMap
    ELSE [f \in {g \in SchemaFieldSet(schema) : answer[g] # "omit"} |->
             IF answer[f] = "value" THEN TrueValue(pdf_bytes, f) ELSE Null]

\* "->".join(steps)
JoinArrow(steps) ==
    CASE steps = <<>> -> ""
      [] steps = <<"llm-full">> -> "llm-full"
      [] steps = <<"template">> -> "template"
      [] steps = <<"cache-l3", "llm-fallback">> -> "cache-l3->llm-fallback"
      [] steps = <<"cache-l3", "template">> -> "cache-l3->template"
      [] steps = <<"template", "llm-fallback">> -> "template->llm-fallback"
      [] steps = <<"cache-l3", "template", "llm-fallback">> ->
            "cache-l3->template->llm-fallback"
      [] OTHER -> "?"

\* dict.update
DictUpdate(d, e) ==
    [k \in DOMAIN d \cup DOMAIN e |-> IF k \in DOMAIN e THEN e[k] ELSE d[k]]

\* A pipeline that treats only a Tier-1 answer as a full hit.
IsFullHit_l1_only(source) == source \in {"L1_MEMORY"}

\* source in ['L1_MEMORY', 'L2_DISK']
IsFullHit(source) == source \in {"L1_MEMORY", "L2_DISK"}

\* schema_to_extract after a partial hit: the fields still None.
Unresolved(schema, final_data) ==
    LET Missing(pair) == DictGet(final_data, pair[1]) = Null
    IN SelectSeq(schema, Missing)

\* The loop over schema_to_extract that adopts the template's values.
AdoptTemplate(final_data, template_result, schema_to_extract) ==
    [k \in DOMAIN final_data \cup
           {f \in SchemaFieldSet(schema_to_extract) : DictGet(template_result, f) # Null} |->
        IF k \in SchemaFieldSet(schema_to_extract) /\ DictGet(template_result, k) # Null
        THEN template_result[k] ELSE final_data[k]]

\* The objects a full hit mutates are shared with Tier-1: the metadata dict
\* always, the entry dict itself when it was just promoted from Tier-2.
TouchL1(l1, key, source) ==
    IF key \notin L1Keys(l1) THEN l1
    ELSE [l1 EXCEPT ![L1Index(l1, key)].entry =
            [@ EXCEPT !.metadata = [@ EXCEPT !.method = "cache-l2"],
                      !.pipe = IF source = "L2_DISK"
                               THEN [method |-> "cache-l2", steps |-> <<>>] ELSE @]]

\* final_data["_pipeline"] = pipeline_metadata, on the dict Tier-1 holds.
AliasL1(l1, key) ==
    IF key \notin L1Keys(l1) THEN l1
    ELSE [l1 EXCEPT ![L1Index(l1, key)].entry.dataPipe = TRUE]

NoResult == [data |-> EmptyMap, hasPipeline |-> FALSE, pipeline |-> NoMeta]

Outcome(c, db, ps, status, source, result, steps, tokenised, template_called, llm_called, llm_schema, llm_data, learned, set_called, fault, llm_reply, template_kind, io, learn_args) ==
    [cache |-> c, db |-> db, pstats |-> ps, status |-> status, source |-> source,
     result |-> result, steps |-> steps, tokenised |-> tokenised,
     template_called |-> template_called, llm_called |-> llm_called,
     llm_schema |-> llm_schema, llm_data |-> llm_data, learned |-> learned,
     set_called |-> set_called, fault |-> fault, llm_reply |-> llm_reply,
     template_kind |-> template_kind, io |-> io, learn_args |-> learn_args]

\* No call of learn_from_llm_result in the request.
NoLearn == [invoked |-> FALSE, schema |-> <<>>, llm_data |-> EmptyMap]

\* A learning call that is handed the schema of the request and all the
\* data gathered for it.
LearnArgs_whole_request(schema, b, llm_data, final_data) ==
    [invoked |-> TRUE, schema |-> schema, llm_data |-> final_data]

\* The arguments of the learning call: schema_to_extract as the LLM was
\* given it, and llm_data.
LearnArgs(schema, b, llm_data, final_data) ==
    [invoked |-> TRUE, schema |-> b.schema_to_extract, llm_data |-> llm_data]

\* The full-hit branch: the counters, the mutation of the shared metadata
\* object, and cached_result["data"] as the return value.
FullHitOutcome(g, db, ps, key) ==
    Outcome([l1 |-> TouchL1(g.l1, key, g.result.source), l2 |-> g.l2, l3 |-> g.l3,
             stats |-> g.stats],
            db, Bump(ps, "cache_hits_l1_l2"), "returned", g.result.source,
            [data |-> g.result.data, hasPipeline |-> g.result.dataPipe,
             pipeline |-> IF g.result.dataPipe
                          THEN [g.result.metadata EXCEPT !.method = "cache-l2"]
                          ELSE NoMeta],
            <<>>, FALSE, FALSE, FALSE, <<>>, EmptyMap, FALSE, FALSE, "-", "-", "-", <<>>,
            NoLearn)

\* final_data, schema_to_extract, the steps and the counters after the
\* lookup was a partial hit or a miss.
AfterLookup(cached_result, schema, ps) ==
    IF cached_result.source = "L3_PARTIAL"
    THEN [final_data |-> cached_result.data,
          schema_to_extract |-> Unresolved(schema, cached_result.data),
          steps |-> <<"cache-l3">>, pstats |-> Bump(ps, "cache_hits_l3")]
    ELSE [final_data |-> EmptyMap, schema_to_extract |-> schema,
          steps |-> <<>>, pstats |-> ps]

\* Etapa 2 once the template answered: "if template_result:" is true for a
\* dict that is not empty.
TemplateStage(a, t) ==
    IF t.kind = "data" /\ DOMAIN t.data # {}
    THEN [final_data |-> AdoptTemplate(a.final_data, t.data, a.schema_to_extract),
          schema_to_extract |-> Unresolved(a.schema_to_extract, t.data),
          steps |-> Append(a.steps, "template"),
          pstats |-> Bump(a.pstats, "template_hits")]
    ELSE a

\* Etapa 3 up to the LLM call: the step name and the counter.
LLMStage(b) ==
    IF b.schema_to_extract = <<>> THEN b
    ELSE IF b.steps = <<>>
    THEN [b EXCEPT !.steps = Append(@, "llm-full"), !.pstats = Bump(@, "llm_calls_full")]
    ELSE [b EXCEPT !.steps = Append(@, "llm-fallback"),
                   !.pstats = Bump(@, "llm_calls_fallback")]

DBState == [templates |-> templates, extraction_rules |-> extraction_rules]

\* The state a request leaves behind and the record of what it did.
Finish(o, pdf_bytes, label, schema) ==
    /\ InstallCache(o.cache)
    /\ templates' = o.db.templates
    /\ extraction_rules' = o.db.extraction_rules
    /\ pipeline_stats' = o.pstats
    /\ last' = [op |-> "extract", pdf |-> pdf_bytes, label |-> label, schema |-> schema,
                key |-> generate_l1_l2_key(pdf_bytes, label, schema),
                status |-> o.status, source |-> o.source, result |-> o.result,
                steps |-> o.steps, tokenised |-> o.tokenised,
                template_called |-> o.template_called, llm_called |-> o.llm_called,
                llm_schema |-> o.llm_schema, llm_data |-> o.llm_data,
                learned |-> o.learned, set_called |-> o.set_called,
                fault |-> o.fault, llm_reply |-> o.llm_reply,
                template_kind |-> o.template_kind, io |-> o.io,
                learn_args |-> o.learn_args]

\* A tokeniser that closes the document only after a complete read.
_get_rich_elements_no_finally(pdf_bytes, fault) ==
    IF fault = "tokeniser_open"
    THEN [raised |-> TRUE, elements |-> <<>>, io |-> <<>>]
    ELSE IF fault = "tokeniser_read"
    THEN [raised |-> TRUE, elements |-> <<>>, io |-> <<"open">>]
    ELSE [raised |-> FALSE, elements |-> PdfTokens(pdf_bytes), io |-> <<"open", "close">>]

\* _get_rich_elements: pymupdf.open, then the loop over the pages in a try
\* whose finally closes the document.  io lists what happened to the
\* document handle; the tokeniser fails either in pymupdf.open or while
\* reading a page.
_get_rich_elements(pdf_bytes, fault) ==
    IF fault = "tokeniser_open"
    THEN [raised |-> TRUE, elements |-> <<>>, io |-> <<>>]
    ELSE IF fault = "tokeniser_read"
    THEN [raised |-> TRUE, elements |-> <<>>, io |-> <<"open", "close">>]
    ELSE [raised |-> FALSE, elements |-> PdfTokens(pdf_bytes), io |-> <<"open", "close">>]

\* Whether the temporary file exists after the events of io.
TmpExists(io) ==
    /\ \E i \in 1..Len(io) : io[i] = "create"
    /\ \A i \in 1..Len(io) : io[i] # "unlink"

\* finally: if os.path.exists(tmp_path): os.unlink(tmp_path)
Finally(io) == IF TmpExists(io) THEN Append(io, "unlink") ELSE io

\* CacheManager.set when the Tier-2 write raises: the entry is already in
\* Tier-1, nothing reaches the disk.
CacheSet_l2_write_fails(c, pdf_bytes, label, schema, result_data, exec_metadata) ==
    [c EXCEPT !.l1 = _add_to_l1(c.l1, generate_l1_l2_key(pdf_bytes, label, schema),
                                NewEntry(result_data, exec_metadata))]

\* extract(pdf_bytes, label, schema), from the first line to the return or
\* the exception, given what the collaborators do: fault names the call
\* that fails (the tokeniser, learn_from_llm_result, or the cache write),
\* llm_mode and llm_answer what the LLM does.  Each value the code computes
\* once is bound once.
Extract(pdf_bytes, label, schema, fault, llm_mode, llm_answer) ==
    /\ requests < MaxRequests
    /\ requests' = requests + 1
    /\ UNCHANGED <<lastSet, set_calls, learn_calls, store_calls>>
    /\ \E key \in {generate_l1_l2_key(pdf_bytes, label, schema)} :
       \E g \in {CacheGet(CacheState, pdf_bytes, label, schema)} :
       \E c \in {[l1 |-> g.l1, l2 |-> g.l2, l3 |-> g.l3, stats |-> g.stats]} :
       \E ps1 \in {Bump(pipeline_stats, "total_requests")} :
         IF g.result.source # "NONE" /\ IsFullHit(g.result.source)
         THEN Finish(FullHitOutcome(g, DBState, ps1, key), pdf_bytes, label, schema)
         ELSE
           \E a \in {AfterLookup(g.result, schema, ps1)} :
           \E tok \in {_get_rich_elements(pdf_bytes, fault)} :
           \E io \in {<<"create">> \o tok.io} :
           IF tok.raised
           THEN Finish(Outcome(c, DBState, a.pstats, "raised", g.result.source, NoResult,
                               a.steps, FALSE, FALSE, FALSE, <<>>, EmptyMap, FALSE, FALSE,
                               fault, "-", "-", Finally(io), NoLearn),
                       pdf_bytes, label, schema)
           ELSE
             \E rich_elements \in {tok.elements} :
             \E t \in {IF a.schema_to_extract # <<>>
                       THEN check_and_use_template(DBState, label, rich_elements)
                       ELSE [kind |-> "-", data |-> EmptyMap]} :
             IF t.kind = "raise"
             THEN Finish(Outcome(c, DBState, a.pstats, "raised", g.result.source, NoResult,
                                 a.steps, TRUE, TRUE, FALSE, <<>>, EmptyMap, FALSE, FALSE,
                                 "-", "-", t.kind, Finally(io), NoLearn),
                         pdf_bytes, label, schema)
             ELSE
               \E b \in {TemplateStage(a, t)} :
               \E d \in {LLMStage(b)} :
               \E use_llm \in {b.schema_to_extract # <<>>} :
               \E llm_schema \in {IF use_llm THEN SchemaKeys(b.schema_to_extract)
                                   ELSE <<>>} :
               \E llm_reply \in {IF use_llm THEN llm_mode ELSE "-"} :
               IF llm_reply = "raise"
               THEN Finish(Outcome(c, DBState, d.pstats, "raised", g.result.source, NoResult,
                                   d.steps, TRUE, a.schema_to_extract # <<>>, TRUE,
                                   llm_schema, EmptyMap, FALSE, FALSE,
                                   "llm", llm_reply, t.kind, Finally(io), NoLearn),
                           pdf_bytes, label, schema)
               ELSE
                 \E llm_data \in {IF use_llm
                                  THEN LLMData(pdf_bytes, b.schema_to_extract, llm_mode,
                                               llm_answer)
                                  ELSE EmptyMap} :
                 \E final_data \in {IF use_llm THEN DictUpdate(b.final_data, llm_data)
                                    ELSE b.final_data} :
                 \E la \in {IF use_llm THEN LearnArgs(schema, b, llm_data, final_data)
                            ELSE NoLearn} :
                 IF use_llm /\ fault = "learning"
                 THEN Finish(Outcome(c, DBState, d.pstats, "raised", g.result.source,
                                     NoResult, d.steps, TRUE, a.schema_to_extract # <<>>,
                                     TRUE, llm_schema, llm_data, FALSE, FALSE,
                                     fault, llm_reply, t.kind, Finally(io), la),
                             pdf_bytes, label, schema)
                 ELSE
                   \E db1 \in {IF use_llm
                               THEN learn_from_llm_result(DBState, label, la.schema,
                                                          la.llm_data, rich_elements)
                               ELSE DBState} :
                   \E pipeline_metadata \in {[method |-> JoinArrow(d.steps),
                                              steps |-> d.steps]} :
                   IF fault = "cache_write"
                   THEN Finish(Outcome(CacheSet_l2_write_fails(c, pdf_bytes, label, schema,
                                           final_data, pipeline_metadata),
                                       db1, d.pstats, "raised", g.result.source, NoResult,
                                       d.steps, TRUE, a.schema_to_extract # <<>>, use_llm,
                                       llm_schema, llm_data, use_llm, TRUE,
                                       fault, llm_reply, t.kind, Finally(io), la),
                               pdf_bytes, label, schema)
                   ELSE
                     \E c1 \in {CacheSet(c, pdf_bytes, label, schema, final_data,
                                         pipeline_metadata)} :
                       Finish(Outcome([c1 EXCEPT !.l1 = AliasL1(@, key)], db1, d.pstats,
                                      "returned", g.result.source,
                                      [data |-> final_data, hasPipeline |-> TRUE,
                                       pipeline |-> pipeline_metadata],
                                      d.steps, TRUE, a.schema_to_extract # <<>>, use_llm,
                                      llm_schema, llm_data, use_llm, TRUE,
                                      "-", llm_reply, t.kind, Finally(io), la),
                              pdf_bytes, label, schema)

\* A new process on the same persistent_data directory: CacheManager() and
\* ExtractionPipeline() start with an empty Tier-1 and zeroed counters; the
\* disk cache and the template database keep their contents.
Restart ==
    /\ l1_memory_cache' = <<>>
    /\ stats' = ZeroStats
    /\ pipeline_stats' = ZeroPipelineStats
    /\ last' = [NoOp EXCEPT !.op = "restart"]
    /\ UNCHANGED <<l2_disk_cache, l3_fields, templates, extraction_rules,
                   lastSet, set_calls, requests, learn_calls, store_calls>>

\* What the collaborators do during one request: the tokeniser fails, or
\* it works and the LLM fails, returns non-JSON text, or answers for the
\* fields of the request.
AllValues == [f \in FieldNames |-> "value"]
Behaviours(schema) ==
    {[fault |-> "tokeniser_open", llm_mode |-> "json", llm_answer |-> AllValues]}
    \cup {[fault |-> "none", llm_mode |-> m, llm_answer |-> AllValues] :
             m \in {"raise", "unparseable"}}
    \cup {[fault |-> "none", llm_mode |-> "json", llm_answer |-> a] :
             a \in LLMAnswers(schema)}

DoExtract ==
    \E p \in Pdfs, lb \in Labels, s \in RequestSchemas :
        \E b \in Behaviours(s) :
            Extract(p, lb, s, b.fault, b.llm_mode, b.llm_answer)

Init == InitCache

Next == DoExtract \/ Restart

Spec == Init /\ [][Next]_vars

(***************************************************************************)
(* The pipeline with every collaborator able to fail: the tokeniser in     *)
(* pymupdf.open or while reading, the LLM call, learn_from_llm_result, and *)
(* the Tier-2 write of CacheManager.set.  When the LLM answers it gives    *)
(* every field its value or text that is not JSON.                         *)
(***************************************************************************)
FaultBehaviours ==
    {[fault |-> f, llm_mode |-> "json", llm_answer |-> AllValues] :
        f \in {"none", "tokeniser_open", "tokeniser_read", "learning", "cache_write"}}
    \cup {[fault |-> "none", llm_mode |-> m, llm_answer |-> AllValues] :
             m \in {"raise", "unparseable"}}

DoExtractFaults ==
    \E p \in Pdfs, lb \in Labels, s \in RequestSchemas :
        \E b \in FaultBehaviours :
            Extract(p, lb, s, b.fault, b.llm_mode, b.llm_answer)

NextFaults == DoExtractFaults \/ Restart

SpecFaults == Init /\ [][NextFaults]_vars

(***************************************************************************)
(* Direct use of the TemplateOrchestrator: any sequence of                 *)
(* learn_from_llm_result, check_and_use_template and get_template_stats    *)
(* calls, for two labels and for documents of two layouts.  The data       *)
(* handed to a learning call are the values of one of the documents, which *)
(* need not be the document the tokens come from.                          *)
(***************************************************************************)
TemplateLabels == Labels \cup {"nota_fiscal"}

\* Pdf 0 is a document of another layout (the last case of PdfTokens).
TemplateDocs == Pdfs \cup {0}

LearnData(schema) == {LLMData(v, schema, "json", AllValues) : v \in TemplateDocs}

Learn(label, schema, llm_data, doc) ==
    /\ learn_calls < MaxLearns
    /\ learn_calls' = learn_calls + 1
    /\ \E db1 \in {learn_from_llm_result(DBState, label, schema, llm_data, PdfTokens(doc))} :
         /\ templates' = db1.templates
         /\ extraction_rules' = db1.extraction_rules
    /\ last' = [op |-> "learn", label |-> label, schema |-> schema, llm_data |-> llm_data,
                doc |-> doc]
    /\ UNCHANGED <<cacheVars, lastSet, set_calls, pipeline_stats, requests, store_calls>>

Check(label, doc) ==
    /\ \E t \in {check_and_use_template(DBState, label, PdfTokens(doc))} :
         last' = [op |-> "check", label |-> label, doc |-> doc, kind |-> t.kind,
                  data |-> t.data]
    /\ UNCHANGED <<cacheVars, lastSet, set_calls, pipelineVars>>

Stats ==
    /\ last' = [op |-> "stats", stats |-> get_template_stats(DBState)]
    /\ UNCHANGED <<cacheVars, lastSet, set_calls, pipelineVars>>

DoLearn ==
    \E lb \in TemplateLabels, s \in RequestSchemas, doc \in TemplateDocs :
        \E llm_data \in LearnData(s) : Learn(lb, s, llm_data, doc)
DoCheck == \E lb \in TemplateLabels, doc \in TemplateDocs : Check(lb, doc)

NextOrch == DoLearn \/ DoCheck \/ Stats

SpecOrch == Init /\ [][NextOrch]_vars

(***************************************************************************)
(* Direct use of the TemplateDatabase: any sequence of create_template,    *)
(* update_template_signature and add_extraction_rule calls.  The table     *)
(* extraction_rules has a foreign key on templates, which SQLite does not  *)
(* enforce on a connection that never sets PRAGMA foreign_keys, so a rule  *)
(* can be added for any template id.                                       *)
(***************************************************************************)
\* Two rules a caller may add for a field.
StoreRules ==
    {[rule_type |-> "none", rule_data |-> [reason |-> "value_is_null"],
      confidence |-> Conf(90)],
     [rule_type |-> "regex", rule_data |-> [pattern |-> "cpf", regex |-> "cpf"],
      confidence |-> Conf(100)]}

\* create_template: the INSERT raises sqlite3.IntegrityError when the label
\* is taken (label TEXT NOT NULL UNIQUE) and the table stays as it was.
CreateTemplate(label, structural_signature) ==
    /\ store_calls < MaxStoreCalls
    /\ store_calls' = store_calls + 1
    /\ \E taken \in {find_template_by_label(DBState, label) # NoTemplate} :
       \E db1 \in {IF taken THEN DBState
                    ELSE create_template(DBState, label, structural_signature)} :
         /\ templates' = db1.templates
         /\ extraction_rules' = db1.extraction_rules
         /\ last' = [op |-> "create_template", label |-> label,
                     structural_signature |-> structural_signature,
                     status |-> IF taken THEN "raised" ELSE "ok",
                     id |-> IF taken THEN 0 ELSE Len(db1.templates)]
    /\ UNCHANGED <<cacheVars, lastSet, set_calls, pipeline_stats, requests, learn_calls>>

\* update_template_signature; before is the table as the call found it.
UpdateSignature(template_id, new_signature) ==
    /\ store_calls < MaxStoreCalls
    /\ store_calls' = store_calls + 1
    /\ \E db1 \in {update_template_signature(DBState, template_id, new_signature)} :
         /\ templates' = db1.templates
         /\ extraction_rules' = db1.extraction_rules
    /\ last' = [op |-> "update_template_signature", template_id |-> template_id,
                new_signature |-> new_signature, before |-> templates]
    /\ UNCHANGED <<cacheVars, lastSet, set_calls, pipeline_stats, requests, learn_calls>>

\* add_extraction_rule; before is the table as the call found it.
AddRule(template_id, field_name, rule) ==
    /\ store_calls < MaxStoreCalls
    /\ store_calls' = store_calls + 1
    /\ \E db1 \in {add_extraction_rule(DBState, template_id, field_name, rule.rule_type,
                                        rule.rule_data, rule.confidence)} :
         /\ templates' = db1.templates
         /\ extraction_rules' = db1.extraction_rules
    /\ last' = [op |-> "add_extraction_rule", template_id |-> template_id,
                field_name |-> field_name, rule |-> rule, before |-> extraction_rules]
    /\ UNCHANGED <<cacheVars, lastSet, set_calls, pipeline_stats, requests, learn_calls>>

\* The calls made: signatures over two labels, the ids of the first two rows.
NextStore ==
    \/ \E lb \in TemplateLabels, sig \in SUBSET {"cpf", "nome"} : CreateTemplate(lb, sig)
    \/ \E id \in 1..2, sig \in SUBSET {"cpf", "nome"} : UpdateSignature(id, sig)
    \/ \E id \in 1..2, f \in FieldNames, r \in StoreRules : AddRule(id, f, r)

SpecStore == Init /\ [][NextStore]_vars

(***************************************************************************)
(* Properties of the CacheManager (checked under SpecCache)                *)
(***************************************************************************)
IsGetStep == stats'.total_requests = stats.total_requests + 1
IsSetStep == set_calls' = set_calls + 1

\* The schema fields of a request that have a Tier-3 entry in store l3.
L3Found(l3, pdf_bytes, label, schema) ==
    {f \in SchemaFieldSet(schema) :
        generate_l3_field_key(pdf_bytes, label, f) \in DOMAIN l3}

\* C1: after any sequence of get and set calls, promotions included, Tier-1
\* never holds more than L1_MEMORY_MAX_SIZE entries.
C1_L1SizeBounded == Len(l1_memory_cache) <= L1_MEMORY_MAX_SIZE

\* A get was served by Tier-2 and promoted into a full Tier-1: more keys
\* exist on disk than Tier-1 can hold.
C1_Witness ==
    /\ last.op = "get" /\ last.result.source = "L2_DISK"
    /\ Len(l1_memory_cache) = L1_MEMORY_MAX_SIZE
    /\ Cardinality(DOMAIN l2_disk_cache) > L1_MEMORY_MAX_SIZE

\* C2: a get of a fingerprint that was set before is a full hit that returns
\* the data and the metadata of the latest set of that fingerprint.
C2_GetAfterSet ==
    (last.op = "get" /\ last.key \in DOMAIN lastSet) =>
        /\ last.result.source \in {"L1_MEMORY", "L2_DISK"}
        /\ last.result.data = lastSet[last.key].data
        /\ last.result.metadata = lastSet[last.key].metadata

\* A get answered from Tier-1 for a fingerprint that was set.
C2_Witness ==
    /\ last.op = "get" /\ last.key \in DOMAIN lastSet
    /\ last.result.source = "L1_MEMORY"
    /\ DOMAIN last.result.data # {}

\* C5: a get of a fingerprint absent from Tier-1 and present in Tier-2 is a
\* full hit with source L2 carrying the Tier-2 data, increments l2_hits and
\* leaves the fingerprint in Tier-1; a get of a fingerprint present in
\* Tier-1 is a Tier-1 hit.
C5_L2HitPromotes ==
    [][IsGetStep =>
        /\ (last'.key \notin L1Keys(l1_memory_cache) /\ last'.key \in DOMAIN l2_disk_cache) =>
              /\ last'.result.source = "L2_DISK"
              /\ last'.result.data = l2_disk_cache[last'.key].data
              /\ stats'.l2_hits = stats.l2_hits + 1
              /\ last'.key \in L1Keys(l1_memory_cache')
        /\ last'.key \in L1Keys(l1_memory_cache) =>
              /\ last'.result.source = "L1_MEMORY"
              /\ stats'.l2_hits = stats.l2_hits]_vars

\* A get was served by Tier-2 while Tier-1 was full.
C5_Witness ==
    /\ last.op = "get" /\ last.result.source = "L2_DISK"
    /\ stats.l2_hits = 1
    /\ last.key \in L1Keys(l1_memory_cache)
    /\ Cardinality(DOMAIN l2_disk_cache) > L1_MEMORY_MAX_SIZE

\* C6: on a get with no Tier-1 and no Tier-2 entry, if some but not all
\* schema fields have a Tier-3 entry the result is Partial with the found
\* values, None for every missing field, fields_found the number found and
\* fields_requested the schema size; if no field has one the result is Miss.
C6_PartialOrMiss ==
    [][(IsGetStep /\ last'.key \notin L1Keys(l1_memory_cache)
                  /\ last'.key \notin DOMAIN l2_disk_cache) =>
        LET found == L3Found(l3_fields, last'.pdf, last'.label, last'.schema)
            n == Cardinality(found)
        IN /\ (n > 0 /\ n < Len(last'.schema)) =>
                 /\ last'.result.source = "L3_PARTIAL"
                 /\ last'.result.data =
                        [f \in SchemaFieldSet(last'.schema) |->
                            IF f \in found
                            THEN l3_fields[generate_l3_field_key(last'.pdf, last'.label, f)]
                            ELSE Null]
                 /\ last'.result.fields_found = n
                 /\ last'.result.fields_requested = Len(last'.schema)
                 /\ stats'.l3_hits = stats.l3_hits + 1
           /\ n = 0 => (last'.result.source = "NONE" /\ stats'.misses = stats.misses + 1)]_vars

\* A partial hit for a fingerprint that was never set: the field found was
\* written by a set under another schema.
C6_Witness ==
    /\ last.op = "get" /\ last.result.source = "L3_PARTIAL"
    /\ last.key \notin DOMAIN lastSet
    /\ last.result.fields_found = 1 /\ last.result.fields_requested = 2
    /\ \E f \in DOMAIN last.result.data : last.result.data[f] = Null

C8_L3NeverNull ==
    [][/\ \A k \in DOMAIN l3_fields' : l3_fields'[k] # Null
       /\ IsSetStep =>
            LET written == {generate_l3_field_key(last'.pdf, last'.label, f) :
                               f \in {g \in DOMAIN last'.data : last'.data[g] # Null}}
            IN /\ DOMAIN l3_fields' = DOMAIN l3_fields \cup written
               /\ \A k \in written : l3_fields'[k] = last'.data[k[4]]
               /\ \A k \in DOMAIN l3_fields \ written : l3_fields'[k] = l3_fields[k]]_vars

\* A set whose data has a None field that has no Tier-3 entry, next to a
\* field that was stored.
C8_Witness ==
    /\ last.op = "set"
    /\ \E f \in DOMAIN last.data :
          /\ last.data[f] = Null
          /\ generate_l3_field_key(last.pdf, last.label, f) \notin DOMAIN l3_fields
    /\ \E f \in DOMAIN last.data :
          /\ last.data[f] # Null
          /\ generate_l3_field_key(last.pdf, last.label, f) \in DOMAIN l3_fields

(***************************************************************************)
(* Properties of ExtractionPipeline.extract (checked under Spec)           *)
(***************************************************************************)
IsExtractStep == requests' = requests + 1

\* The request ended in the exception of a collaborator that failed: the
\* tokeniser, the LLM call, learning or the cache write.
CollaboratorFault(op) ==
    op.status = "raised" /\ op.fault # "-"

\* C3: a request answered by a Tier-1 or Tier-2 full hit tokenises nothing,
\* tries no template, calls no LLM, learns nothing and writes nothing back:
\* the template store, Tier-2 and Tier-3 are as they were before it, and
\* the fields it returns are the cached ones.
C3_FullHitNoWork ==
    [][(IsExtractStep /\ (\/ last'.key \in L1Keys(l1_memory_cache)
                          \/ last'.key \in DOMAIN l2_disk_cache)) =>
        /\ last'.status = "returned"
        /\ last'.source \in {"L1_MEMORY", "L2_DISK"}
        /\ ~last'.tokenised /\ ~last'.template_called /\ ~last'.llm_called
        /\ ~last'.learned /\ ~last'.set_called
        /\ last'.steps = <<>>
        /\ UNCHANGED <<l2_disk_cache, l3_fields, templates, extraction_rules>>
        /\ last'.result.data = l2_disk_cache[last'.key].data]_vars

\* A request served from Tier-2 in a process that had not seen it, with a
\* template and field entries on disk that it could have touched.
C3_Witness ==
    /\ last.op = "extract" /\ last.source = "L2_DISK" /\ last.status = "returned"
    /\ templates # <<>>
    /\ DOMAIN l3_fields # {}
    /\ pipeline_stats.cache_hits_l1_l2 = 1

\* C4 as stated: every result returned for a request served from Tier-1 or
\* Tier-2 carries a _pipeline object whose method is "cache-l2".
C4_CacheResultHasPipeline ==
    (last.op = "extract" /\ last.status = "returned"
        /\ last.source \in {"L1_MEMORY", "L2_DISK"}) =>
        /\ last.result.hasPipeline
        /\ last.result.pipeline.method = "cache-l2"

\* C9 as stated: a request that is a Tier-3 partial hit, and whose
\* tokeniser and LLM do not fail, returns a result that keeps every Tier-3
\* value found, calls the LLM with exactly the fields Tier-3 did not have,
\* and records the steps cache-l3, llm-fallback; llm-full is recorded only
\* as the single step of a request.
C9_PartialHitFallback ==
    [][(IsExtractStep /\ ~CollaboratorFault(last')) =>
        LET found == L3Found(l3_fields, last'.pdf, last'.label, last'.schema)
            InFound(f) == f \in found
            NotFound(f) == f \notin found
        IN /\ last'.source = "L3_PARTIAL" =>
                /\ last'.status = "returned"
                /\ \A f \in found :
                      /\ f \in DOMAIN last'.result.data
                      /\ last'.result.data[f] =
                             l3_fields[generate_l3_field_key(last'.pdf, last'.label, f)]
                /\ last'.llm_called
                /\ last'.llm_schema = SelectSeq(SchemaKeys(last'.schema), NotFound)
                /\ last'.steps = <<"cache-l3", "llm-fallback">>
           /\ (\E i \in 1..Len(last'.steps) : last'.steps[i] = "llm-full") =>
                 last'.steps = <<"llm-full">>]_vars

\* C10 as stated: the result of every completed request has every field
\* name of the request schema as a key.
C10_EveryFieldPresent ==
    (last.op = "extract" /\ last.status = "returned") =>
        \A f \in SchemaFieldSet(last.schema) : f \in DOMAIN last.result.data

(***************************************************************************)
(* Failures inside a request                                               *)
(***************************************************************************)
\* C11 as stated: a request whose LLM call returns text that is not JSON
\* still completes, and the rules and the templates of the template store
\* are the same after the request as before.
C11_UnparseableLearnsNothing ==
    [][(IsExtractStep /\ last'.llm_reply = "unparseable") =>
        /\ last'.status = "returned"
        /\ UNCHANGED <<templates, extraction_rules>>]_vars

\* C12: a request whose tokeniser or LLM call raises fails, and Tier-1,
\* Tier-2 and Tier-3 hold exactly what they held before it.
C12_FaultLeavesTiers ==
    [][(IsExtractStep /\ last'.fault \in {"tokeniser_open", "tokeniser_read", "llm"}) =>
        /\ last'.status = "raised"
        /\ UNCHANGED <<l1_memory_cache, l2_disk_cache, l3_fields>>]_vars

\* The LLM call failed on the fields a Tier-3 partial hit left open, in a
\* process whose Tier-1 holds an entry.
C12_Witness ==
    /\ last.op = "extract" /\ last.fault = "llm" /\ last.status = "raised"
    /\ last.source = "L3_PARTIAL"
    /\ l1_memory_cache # <<>>
    /\ DOMAIN l2_disk_cache # {}

\* C13 as stated: a request whose cache write fails after the fields were
\* extracted still returns the result.
C13_WriteErrorStillReturns ==
    (last.op = "extract" /\ last.fault = "cache_write") =>
        /\ last.status = "returned"
        /\ last.result.hasPipeline

\* C14 as stated: a request whose learn_from_llm_result raises still writes
\* its result back to the cache and returns it.
C14_LearnErrorStillReturns ==
    (last.op = "extract" /\ last.fault = "learning") =>
        /\ last.set_called
        /\ last.status = "returned"

\* C15: when a request that created the temporary file exits, by a return
\* or by an exception of the tokeniser, the template, the LLM, learning or
\* the cache write, the file does not exist, and every document handle the
\* tokeniser opened was closed before the file was deleted.
C15_TempFileRemoved ==
    (last.op = "extract" /\ \E i \in 1..Len(last.io) : last.io[i] = "create") =>
        /\ ~TmpExists(last.io)
        /\ \A i \in 1..Len(last.io) : last.io[i] = "open" =>
              \E j, k \in 1..Len(last.io) :
                  i < j /\ j < k /\ last.io[j] = "close" /\ last.io[k] = "unlink"

\* The tokeniser opened the document and failed while reading it.
C15_Witness ==
    /\ last.op = "extract" /\ last.status = "raised" /\ last.fault = "tokeniser_read"
    /\ \E i \in 1..Len(last.io) : last.io[i] = "open"

(***************************************************************************)
(* Properties of the TemplateOrchestrator (checked under SpecOrch)         *)
(***************************************************************************)
IsLearnStep == learn_calls' = learn_calls + 1

\* C16: a learning call for a label without a template creates one with
\* sample_count 1 and a learning call for a label with a template
\* increments its sample_count by exactly 1; check_and_use_template
\* returns None for a template with sample_count below 2; mature_templates
\* is the number of templates with sample_count at least 2.
C16_SampleCount ==
    [][/\ IsLearnStep =>
            LET old == find_template_by_label(DBState, last'.label)
                new == find_template_by_label([templates |-> templates',
                                               extraction_rules |-> extraction_rules'],
                                              last'.label)
            IN /\ new # NoTemplate
               /\ new.sample_count = IF old = NoTemplate THEN 1 ELSE old.sample_count + 1
       /\ (last'.op = "check"
             /\ find_template_by_label(DBState, last'.label) # NoTemplate
             /\ find_template_by_label(DBState, last'.label).sample_count < 2)
            => last'.kind = "none"
       /\ last'.op = "stats" =>
            last'.stats.mature_templates =
                Cardinality({i \in 1..Len(templates) : templates[i].sample_count >= 2})]_vars

\* The statistics of a store with one mature template, learned from twice,
\* and one template learned from once.
C16_Witness ==
    /\ last.op = "stats" /\ last.stats.mature_templates = 1
    /\ last.stats.total_templates = 2
    /\ \E i \in 1..Len(templates) : templates[i].sample_count = 1

\* C17 as stated: when there is no template for the label, or the template
\* is immature, or the signature of the document is below the Jaccard
\* threshold, or the template has no rules, check_and_use_template returns
\* None without raising.
C17_DeclineReturnsNone ==
    last.op = "check" =>
        LET template == find_template_by_label(DBState, last.label)
            sim == check_similarity(PySet(extract_signature(PdfTokens(last.doc))),
                                    template.structural_signature)
        IN (\/ template = NoTemplate
            \/ template.sample_count < MIN_SAMPLE_THRESHOLD
            \/ ~sim.is_match
            \/ get_extraction_rules(DBState, template.id) = <<>>)
           => last.kind = "none"

\* C18 as stated, for a request that reaches the template stage: when the
\* label has a mature template with rules and the signature of the
\* document matches it, check_and_use_template returns the field map of
\* the Rule Executor without an error; and when the request was a cache
\* miss and that map has a non-null value for every requested field, no
\* LLM call is made and the steps are exactly template.
C18_TemplateFastPath ==
    [][(IsExtractStep /\ last'.template_called) =>
        LET template == find_template_by_label(DBState, last'.label)
            elements == PdfTokens(last'.pdf)
            sim == check_similarity(PySet(extract_signature(elements)),
                                    template.structural_signature)
            rules == get_extraction_rules(DBState, template.id)
            field_map == execute_all_rules(rules, elements)
        IN (/\ template.sample_count >= MIN_SAMPLE_THRESHOLD
            /\ sim.is_match
            /\ rules # <<>>) =>
              /\ last'.template_kind = "data"
              /\ last'.status = "returned"
              /\ (/\ last'.source = "NONE"
                  /\ \A f \in SchemaFieldSet(last'.schema) : DictGet(field_map, f) # Null)
                    => (~last'.llm_called /\ last'.steps = <<"template">>)]_vars

\* C19: the store holds at most one template per label.
C19_OneTemplatePerLabel ==
    \A i, j \in 1..Len(templates) : templates[i].label = templates[j].label => i = j

\* A label was learned from twice, another label once.
C19_Witness ==
    /\ last.op = "learn" /\ Len(templates) = 2
    /\ find_template_by_label(DBState, last.label).sample_count = 2
    /\ learn_calls = 3

\* C20: across a learning call the stored signature of the label only
\* grows, and after the call it contains the signature extracted from the
\* tokens of that call.
C20_SignatureGrows ==
    [][IsLearnStep =>
        LET old == find_template_by_label(DBState, last'.label)
            new == find_template_by_label([templates |-> templates',
                                           extraction_rules |-> extraction_rules'],
                                          last'.label)
        IN /\ old.structural_signature \subseteq new.structural_signature
           /\ extract_signature(PdfTokens(last'.doc)) \subseteq new.structural_signature]_vars

\* A template learned from documents of two layouts: its signature holds
\* the labels of both, more than the last document has.
C20_Witness ==
    /\ last.op = "learn"
    /\ LET template == find_template_by_label(DBState, last.label)
       IN /\ template.sample_count >= 2
          /\ extract_signature(PdfTokens(last.doc)) # {}
          /\ extract_signature(PdfTokens(last.doc)) # template.structural_signature
          /\ extract_signature(PdfTokens(last.doc)) \subseteq template.structural_signature

(***************************************************************************)
(* The learning of one field and the execution of what was learned, and    *)
(* the template attempt of extract, as functions of their inputs.  The     *)
(* initial state holds the inputs: a field, a value the LLM gave for it    *)
(* and the document whose tokens are learned from; or the state of a       *)
(* request after the cache lookup and an answer of the template.           *)
(***************************************************************************)
\* Values of a field in llm_data: None, the string "null", a text that is
\* in no document, and the text of any token.
FieldValues ==
    {Null, "null", "XYZ"} \cup
    UNION {{PdfTokens(d)[i].text : i \in 1..Len(PdfTokens(d))} : d \in TemplateDocs}

RuleInputs ==
    [op : {"input"}, field_name : FieldNames, field_value : FieldValues, doc : TemplateDocs]

\* The inputs of the template attempt.  a is a request after Etapa 1: a
\* miss, or a partial hit that found one field of a schema of two.  t is
\* what check_and_use_template returns: None, or the dict execute_all_rules
\* built, with one key per rule of the template and None where the rule
\* gave nothing.
StageInputs ==
    LET StageStarts(schema) ==
            {AfterLookup(NoneResult, schema, ZeroPipelineStats)} \cup
            {AfterLookup([NoneResult EXCEPT
                             !.source = "L3_PARTIAL",
                             !.data = [f \in SchemaFieldSet(schema) |->
                                          IF f = g THEN "cached" ELSE Null],
                             !.fields_found = 1, !.fields_requested = Len(schema)],
                         schema, ZeroPipelineStats) :
                g \in {f \in SchemaFieldSet(schema) : Len(schema) = 2}}
        TemplateAnswers ==
            {[kind |-> "none", data |-> EmptyMap]} \cup
            {[kind |-> "data", data |-> m] :
                m \in UNION {[S -> {"found", Null}] : S \in (SUBSET FieldNames) \ {{}}}}
    IN UNION {[op : {"stage_input"}, schema : {schema}, a : StageStarts(schema),
               t : TemplateAnswers] : schema \in RequestSchemas}

\* The initial state holds the inputs of one function.  KeyInputs: two
\* calls of generate_l1_l2_key, with two contents, two labels and two
\* schemas, the schemas in any key order and with either of two descriptions
\* for a field.  StoredRuleInputs: execute_all_rules on one stored rule (a
\* rule of type none, a single-typed rule as learn_rule_for_field returns it
\* for one sub-rule, or a hybrid rule of one to three sub-rules with or
\* without a regex sub-rule) and the document whose tokens it is executed
\* on.  The last set: check_similarity on a set of labels and a stored
\* signature of up to five labels each.
InitRules ==
    /\ l1_memory_cache = <<>>
    /\ l2_disk_cache = EmptyMap
    /\ l3_fields = EmptyMap
    /\ stats = ZeroStats
    /\ LET KeyInputs ==
            LET KeySchemas == {s \in UNION {[1..n -> FieldNames \X {"d", "e"}] : n \in 1..2} :
                                  IsSchema(s)}
            IN [op : {"key_input"}, pdf1 : TemplateDocs, pdf2 : TemplateDocs,
                label1 : {"oab"}, label2 : TemplateLabels,
                schema1 : KeySchemas, schema2 : KeySchemas]
           StoredRuleInputs ==
            LET regex == {[type |-> "regex", data |-> [pattern |-> p, regex |-> p],
                           confidence |-> Conf(c)] :
                             <<p, c>> \in {<<"cpf", 100>>, <<"texto", 70>>, <<"outros", 70>>}}
                context == {[type |-> "relative_context",
                             data |-> [anchor_text |-> a, direction |-> d],
                             confidence |-> Conf(80)] :
                               a \in {"Nome:", "CPF:"}, d \in {"right", "below"}}
                position == {_learn_position_pattern(Elem("v", 200, y)) : y \in {200, 250}}
                subs == regex \cup context \cup position
                hybrid == {<<r>> : r \in subs}
                          \cup {<<r, c>> : r \in regex, c \in context}
                          \cup {<<r, q>> : r \in regex, q \in position}
                          \cup {<<c, q>> : c \in context, q \in position}
                          \cup {<<r, c, q>> : r \in regex, c \in context, q \in position}
                rules == {[rule_type |-> "none", rule_data |-> [reason |-> "value_is_null"]]}
                         \cup {[rule_type |-> r.type, rule_data |-> r.data] : r \in subs}
                         \cup {[rule_type |-> "hybrid", rule_data |-> [rules |-> h]] : h \in hybrid}
            IN [op : {"rule_input"}, field_name : {"cpf"}, rule : rules, doc : TemplateDocs]
       IN last \in RuleInputs \cup StageInputs \cup KeyInputs \cup StoredRuleInputs \cup
                [op : {"similarity_input"},
                 new_signature : SUBSET {"cpf", "data", "nome", "total", "valor"},
                 template_signature : SUBSET {"cpf", "data", "nome", "total", "valor"}]
    /\ lastSet = EmptyMap
    /\ set_calls = 0
    /\ templates = <<>>
    /\ extraction_rules = <<>>
    /\ pipeline_stats = ZeroPipelineStats
    /\ requests = 0
    /\ learn_calls = 0
    /\ store_calls = 0

\* learn_from_llm_result for the one field, on the tokens of the document;
\* rule is what learn_rule_for_field returned for it.
LearnField ==
    /\ last.op = "input"
    /\ \E elements \in {PdfTokens(last.doc)} :
       \E db1 \in {learn_from_llm_result(DBState, "oab",
                                         <<<<last.field_name, "d">>>>,
                                         [f \in {last.field_name} |-> last.field_value],
                                         elements)} :
         /\ templates' = db1.templates
         /\ extraction_rules' = db1.extraction_rules
         /\ last' = [op |-> "learned", field_name |-> last.field_name,
                     field_value |-> last.field_value, doc |-> last.doc,
                     rule |-> learn_rule_for_field(last.field_name, last.field_value,
                                                   elements)]
    /\ UNCHANGED <<cacheVars, lastSet, set_calls, pipeline_stats, requests, learn_calls,
                   store_calls>>

\* execute_all_rules with the rule just learned, whether or not it was
\* stored, and with the rules stored for the template, on the tokens of a
\* document.
ExecuteRules(exec_doc) ==
    /\ last.op \in {"learned", "executed"}
    /\ \E elements \in {PdfTokens(exec_doc)} :
         last' = [op |-> "executed", field_name |-> last.field_name,
                  field_value |-> last.field_value, doc |-> last.doc,
                  rule |-> last.rule, exec_doc |-> exec_doc,
                  of_rule |-> execute_all_rules(
                                 <<[field_name |-> last.field_name,
                                    rule_type |-> last.rule.rule_type,
                                    rule_data |-> last.rule.rule_data]>>, elements),
                  of_template |-> execute_all_rules(get_extraction_rules(DBState, 1),
                                                    elements)]
    /\ UNCHANGED <<cacheVars, lastSet, set_calls, pipelineVars>>

\* Etapa 2 of extract on the request state a and the template's answer t.
TemplateAttempt ==
    /\ last.op = "stage_input"
    /\ last' = [op |-> "stage", schema |-> last.schema, a |-> last.a, t |-> last.t,
                b |-> TemplateStage(last.a, last.t)]
    /\ UNCHANGED <<cacheVars, lastSet, set_calls, pipelineVars>>

\* generate_l1_l2_key on each of the two triples of inputs.
GenerateKeys ==
    /\ last.op = "key_input"
    /\ last' = [op |-> "keys", pdf1 |-> last.pdf1, pdf2 |-> last.pdf2,
                label1 |-> last.label1, label2 |-> last.label2,
                schema1 |-> last.schema1, schema2 |-> last.schema2,
                key1 |-> generate_l1_l2_key(last.pdf1, last.label1, last.schema1),
                key2 |-> generate_l1_l2_key(last.pdf2, last.label2, last.schema2)]
    /\ UNCHANGED <<cacheVars, lastSet, set_calls, pipelineVars>>

\* check_similarity on a set of labels and a stored signature of up to five
\* labels each.
CheckSimilarity ==
    /\ last.op = "similarity_input"
    /\ last' = [op |-> "similarity", new_signature |-> last.new_signature,
                template_signature |-> last.template_signature,
                result |-> check_similarity(PySet(last.new_signature),
                                            last.template_signature)]
    /\ UNCHANGED <<cacheVars, lastSet, set_calls, pipelineVars>>

\* execute_all_rules with the one stored rule on the tokens of the document.
ExecuteStoredRule ==
    /\ last.op = "rule_input"
    /\ last' = [op |-> "rule_output", field_name |-> last.field_name,
                rule |-> last.rule, doc |-> last.doc,
                extracted_data |-> execute_all_rules(
                                      <<[field_name |-> last.field_name,
                                         rule_type |-> last.rule.rule_type,
                                         rule_data |-> last.rule.rule_data]>>,
                                      PdfTokens(last.doc))]
    /\ UNCHANGED <<cacheVars, lastSet, set_calls, pipelineVars>>

NextRules ==
    \/ LearnField
    \/ \E d \in TemplateDocs : ExecuteRules(d)
    \/ TemplateAttempt
    \/ GenerateKeys
    \/ CheckSimilarity
    \/ ExecuteStoredRule

SpecRules == InitRules /\ [][NextRules]_vars

(***************************************************************************)
(* Two learn_from_llm_result calls for the label "oab" that overlap, as    *)
(* two threads or two processes on the same templates.db make them.  Each  *)
(* database method opens its own connection and commits, so a call is a    *)
(* sequence of transactions: the SELECT of find_template_by_label, the     *)
(* UPDATE or INSERT of the template, and one DELETE-and-INSERT for each    *)
(* field whose rule is saved.  The other call may run between any two of   *)
(* them.  last holds what each call keeps in its local variables, the      *)
(* template the label had at first, and whether both calls had read the    *)
(* template before either wrote.                                           *)
(***************************************************************************)
InitLearnRace ==
    /\ l1_memory_cache = <<>>
    /\ l2_disk_cache = EmptyMap
    /\ l3_fields = EmptyMap
    /\ stats = ZeroStats
    /\ lastSet = EmptyMap
    /\ set_calls = 0
    /\ templates \in {<<>>, create_template([templates |-> <<>>, extraction_rules |-> <<>>],
                                           "oab", {"data"}).templates}
    /\ extraction_rules = <<>>
    /\ pipeline_stats = ZeroPipelineStats
    /\ requests = 0
    /\ learn_calls = 0
    /\ store_calls = 0
    /\ \E d1, d2 \in TemplateDocs, s1, s2 \in RequestSchemas :
          last = [op |-> "learn_race",
                  original |-> find_template_by_label(DBState, "oab"),
                  overlapped |-> FALSE,
                  calls |-> <<[pc |-> "start", doc |-> d1, schema |-> s1,
                               llm_data |-> LLMData(d1, s1, "json", AllValues),
                               template |-> NoTemplate, template_id |-> 0],
                              [pc |-> "start", doc |-> d2, schema |-> s2,
                               llm_data |-> LLMData(d2, s2, "json", AllValues),
                               template |-> NoTemplate, template_id |-> 0]>>]

\* template = self.db.find_template_by_label(label)
LearnFind(c) ==
    /\ last.op = "learn_race"
    /\ last.calls[c].pc = "start"
    /\ last' = [last EXCEPT
                  !.calls[c].pc = "found",
                  !.calls[c].template = find_template_by_label(DBState, "oab"),
                  !.overlapped = @ \/ last.calls[3 - c].pc = "found"]
    /\ UNCHANGED <<cacheVars, lastSet, set_calls, pipelineVars>>

\* update_template_signature with the union of the signature that was read
\* and the new one, or create_template, which raises IntegrityError when
\* the label has been inserted since.
LearnWrite(c) ==
    /\ last.op = "learn_race"
    /\ last.calls[c].pc = "found"
    /\ \E template \in {last.calls[c].template} :
       \E new_signature_set \in {extract_signature(PdfTokens(last.calls[c].doc))} :
          IF template # NoTemplate
          THEN /\ templates' = update_template_signature(
                                  DBState, template.id,
                                  template.structural_signature \cup new_signature_set).templates
               /\ last' = [last EXCEPT !.calls[c].pc = "written",
                                       !.calls[c].template_id = template.id]
          ELSE IF find_template_by_label(DBState, "oab") # NoTemplate
          THEN /\ templates' = templates
               /\ last' = [last EXCEPT !.calls[c].pc = "raised"]
          ELSE /\ templates' = create_template(DBState, "oab", new_signature_set).templates
               /\ last' = [last EXCEPT !.calls[c].pc = "written",
                                       !.calls[c].template_id = Len(templates) + 1]
    /\ UNCHANGED <<cacheVars, lastSet, set_calls, extraction_rules, pipeline_stats,
                   requests, learn_calls, store_calls>>

\* One turn of the loop over schema.items(); the call returns after the
\* last field.
LearnSaveRule(c) ==
    /\ last.op = "learn_race"
    /\ last.calls[c].pc = "written"
    /\ extraction_rules' = LearnRules(DBState, last.calls[c].template_id,
                                      <<Head(last.calls[c].schema)>>, last.calls[c].llm_data,
                                      PdfTokens(last.calls[c].doc)).extraction_rules
    /\ last' = [last EXCEPT
                  !.calls[c].schema = Tail(@),
                  !.calls[c].pc = IF Len(last.calls[c].schema) = 1 THEN "returned" ELSE @]
    /\ UNCHANGED <<cacheVars, lastSet, set_calls, templates, pipeline_stats, requests,
                   learn_calls, store_calls>>

NextLearnRace == \E c \in 1..2 : LearnFind(c) \/ LearnWrite(c) \/ LearnSaveRule(c)

SpecLearnRace == InitLearnRace /\ [][NextLearnRace]_vars

(***************************************************************************)
(* Properties of the TemplateDatabase under SpecStore.                     *)
(***************************************************************************)
\* C21 as stated: update_template_signature(template_id, new_elements) sets
\* the stored signature to the union of the previously stored signature and
\* the new elements, and increments sample_count by 1.
C21_UpdateStoresUnion ==
    [][(store_calls' = store_calls + 1 /\ last'.op = "update_template_signature") =>
         \A i \in 1..Len(templates) :
            templates[i].id = last'.template_id =>
               /\ templates'[i].structural_signature =
                     templates[i].structural_signature \cup last'.new_signature
               /\ templates'[i].sample_count = templates[i].sample_count + 1]_vars

\* C21, amended: update_template_signature(template_id, new_signature) sets
\* the stored signature to new_signature, whatever was stored before, and
\* increments sample_count by 1; the other rows of templates and the table
\* extraction_rules are as before, and an id that has no row changes nothing.
C21_UpdateReplacesSignature ==
    [][(store_calls' = store_calls + 1 /\ last'.op = "update_template_signature") =>
         /\ Len(templates') = Len(templates)
         /\ \A i \in 1..Len(templates) :
              IF templates[i].id = last'.template_id
              THEN templates'[i] =
                     [templates[i] EXCEPT !.structural_signature = last'.new_signature,
                                          !.sample_count = @ + 1]
              ELSE templates'[i] = templates[i]
         /\ extraction_rules' = extraction_rules]_vars

\* An update has replaced a stored signature by one that does not contain
\* it: an element stored before is gone, and sample_count is 2.
C21_Witness ==
    /\ last.op = "update_template_signature"
    /\ \E i \in 1..Len(templates) :
          /\ templates[i].id = last.template_id
          /\ ~(last.before[i].structural_signature \subseteq last.new_signature)
          /\ templates[i].structural_signature = last.new_signature
          /\ templates[i].sample_count = 2

\* C23: after any sequence of add_extraction_rule calls the store holds at
\* most one rule per (template_id, field_name), which is the rule of the
\* most recent call for that pair; the rules of other fields and of other
\* templates, and the table templates, are untouched by the call.
C23_UpsertRule ==
    [][(store_calls' = store_calls + 1 /\ last'.op = "add_extraction_rule") =>
       LET Other(r) == ~(r.template_id = last'.template_id
                           /\ r.field_name = last'.field_name)
           row == [template_id |-> last'.template_id, field_name |-> last'.field_name,
                   rule_type |-> last'.rule.rule_type,
                   rule_data |-> last'.rule.rule_data,
                   confidence |-> last'.rule.confidence]
       IN
         /\ \A i, j \in 1..Len(extraction_rules') :
              (/\ extraction_rules'[i].template_id = extraction_rules'[j].template_id
               /\ extraction_rules'[i].field_name = extraction_rules'[j].field_name)
              => i = j
         /\ \E i \in 1..Len(extraction_rules') : extraction_rules'[i] = row
         /\ SelectSeq(extraction_rules', Other) = SelectSeq(extraction_rules, Other)
         /\ templates' = templates]_vars

\* A rule has been added for a pair that had a different rule, while another
\* field of the same template had a rule: the table holds the new rule and
\* the other field's rule, two rows in all.
C23_Witness ==
    /\ last.op = "add_extraction_rule"
    /\ \E i \in 1..Len(last.before) :
         /\ last.before[i].template_id = last.template_id
         /\ last.before[i].field_name = last.field_name
         /\ last.before[i].rule_type # last.rule.rule_type
    /\ \E i \in 1..Len(last.before) :
         /\ last.before[i].template_id = last.template_id
         /\ last.before[i].field_name # last.field_name
         /\ \E j \in 1..Len(extraction_rules) : extraction_rules[j] = last.before[i]
    /\ Len(extraction_rules) = 2
    /\ \E j \in 1..Len(extraction_rules) :
         /\ extraction_rules[j].template_id = last.template_id
         /\ extraction_rules[j].field_name = last.field_name
         /\ extraction_rules[j].rule_type = last.rule.rule_type

(***************************************************************************)
(* Properties of rule learning under SpecOrch.                             *)
(***************************************************************************)
\* C22: after any sequence of learn_from_llm_result calls, no rule returned
\* by get_extraction_rules(template_id) has a confidence below
\* MIN_RULE_CONFIDENCE_TO_SAVE (0.5), for any template.
C22_NoLowConfidenceRule ==
    \A t \in 1..Len(templates) :
        LET rules == get_extraction_rules(DBState, templates[t].id)
        IN \A i \in 1..Len(rules) : rules[i].confidence >= MIN_RULE_CONFIDENCE_TO_SAVE

\* The last call learned, for a field of its schema, a rule with a
\* confidence below the threshold, and the template of the label has no
\* rule for that field, while it has a rule for another field.
C22_Witness ==
    /\ last.op = "learn"
    /\ LET template == find_template_by_label(DBState, last.label)
           rules == get_extraction_rules(DBState, template.id)
       IN /\ \E i \in 1..Len(last.schema) :
               /\ learn_rule_for_field(last.schema[i][1],
                                       DictGet(last.llm_data, last.schema[i][1]),
                                       PdfTokens(last.doc)).confidence
                     < MIN_RULE_CONFIDENCE_TO_SAVE
               /\ \A j \in 1..Len(rules) : rules[j].field_name # last.schema[i][1]
          /\ Len(rules) > 0

(***************************************************************************)
(* Properties of learning and execution under SpecRules.                   *)
(***************************************************************************)
\* C24: learning a field whose LLM value is None or the string "null" stores
\* a rule of type none with confidence 0.9 for the field, and every later
\* execution of the template's rules, on whatever document, emits None for
\* the field; learning a field whose value is found in no token yields a rule
\* of type none with confidence 0.1, and nothing is stored for the field.
C24_NullRule ==
    last.op \in {"learned", "executed"} =>
        LET rules == get_extraction_rules(DBState, 1)
            is_null == last.field_value = Null \/ last.field_value = "null"
            not_in_tokens ==
                _find_element_by_text(last.field_value, PdfTokens(last.doc)) = NoElem
        IN /\ is_null =>
                /\ last.rule.rule_type = "none" /\ last.rule.confidence = Conf(90)
                /\ Len(rules) = 1
                /\ rules[1].field_name = last.field_name
                /\ rules[1].rule_type = "none" /\ rules[1].confidence = Conf(90)
                /\ last.op = "executed" =>
                     /\ last.field_name \in DOMAIN last.of_template
                     /\ last.of_template[last.field_name] = Null
           /\ (~is_null /\ not_in_tokens) =>
                /\ last.rule.rule_type = "none" /\ last.rule.confidence = Conf(10)
                /\ rules = <<>>

\* The string "null" was learned for a field from a document that has the
\* field, the none rule is in the store, and the template's rules were then
\* executed on that document and gave None for the field.
C24_Witness ==
    /\ last.op = "executed"
    /\ last.field_value = "null"
    /\ last.exec_doc = last.doc
    /\ TrueValue(last.doc, last.field_name) # Null
    /\ Len(extraction_rules) = 1
    /\ extraction_rules[1].rule_type = "none"
    /\ last.of_template[last.field_name] = Null

\* C25 as stated: for a field value V that is the text of a token of the
\* list, if learn_rule_for_field returns a hybrid rule, executing that rule
\* on the same token list returns V.
C25_RoundTrip ==
    (/\ last.op = "executed"
     /\ last.exec_doc = last.doc
     /\ last.field_value \in {PdfTokens(last.doc)[i].text : i \in 1..Len(PdfTokens(last.doc))}
     /\ last.rule.rule_type = "hybrid")
    => last.of_rule[last.field_name] = last.field_value

C27_LearnIffLLM ==
    [][IsExtractStep =>
         /\ last'.learn_args.invoked => last'.llm_called
         /\ (last'.llm_called /\ last'.llm_reply # "raise") => last'.learn_args.invoked
         /\ last'.learn_args.invoked =>
              /\ SchemaKeys(last'.learn_args.schema) = last'.llm_schema
              /\ last'.learn_args.llm_data = last'.llm_data
              /\ \A f \in SchemaFieldSet(last'.learn_args.schema) :
                   /\ f \in SchemaFieldSet(last'.schema)
                   /\ last'.source = "L3_PARTIAL" =>
                        generate_l3_field_key(last'.pdf, last'.label, f)
                            \notin DOMAIN l3_fields]_vars

\* A request for two fields was a partial hit that took one field from
\* Tier-3; the LLM was asked for the other field only and answered, and
\* learning was handed that one field and the LLM's data.
C27_Witness ==
    /\ last.op = "extract"
    /\ last.source = "L3_PARTIAL"
    /\ Len(last.schema) = 2
    /\ last.llm_called /\ last.llm_reply = "json"
    /\ last.learn_args.invoked
    /\ Len(last.learn_args.schema) = 1
    /\ last.learn_args.llm_data = last.llm_data
    /\ last.status = "returned"

\* C28 as stated: a request that is not a full cache hit, and whose
\* collaborators do not fail, calls CacheManager.set, after the lookup, the
\* template attempt, the LLM call and the learning call have finished, and
\* returns; the entry is then visible, so that the lookup of an identical
\* request issued afterwards is a full hit.
C28_SetThenFullHit ==
    [][(IsExtractStep /\ ~CollaboratorFault(last')
          /\ last'.source \notin {"L1_MEMORY", "L2_DISK"}) =>
         /\ last'.status = "returned"
         /\ last'.set_called
         /\ last'.llm_called => last'.learn_args.invoked
         /\ CacheGet([l1 |-> l1_memory_cache', l2 |-> l2_disk_cache', l3 |-> l3_fields',
                      stats |-> stats'],
                     last'.pdf, last'.label, last'.schema).result.source
               \in {"L1_MEMORY", "L2_DISK"}]_vars

(***************************************************************************)
(* Further properties of the CacheManager under SpecCache.                 *)
(***************************************************************************)
\* C30: CacheManager.get never changes Tier-2 or Tier-3: whatever the
\* outcome (L1 hit, L2 hit, partial, miss), the keys of both tiers and
\* their values are the same after the get as before.
C30_GetLeavesDisk ==
    [][IsGetStep => (l2_disk_cache' = l2_disk_cache /\ l3_fields' = l3_fields)]_vars

\* A get was a Tier-2 hit, which put the entry into Tier-1 and evicted
\* another, while Tier-2 holds three entries and Tier-3 holds values.
C30_Witness ==
    /\ last.op = "get"
    /\ last.result.source = "L2_DISK"
    /\ stats.l2_hits = 1
    /\ Cardinality(DOMAIN l2_disk_cache) = 3
    /\ l3_fields # EmptyMap
    /\ last.key \in L1Keys(l1_memory_cache)

(***************************************************************************)
(* Properties of Tier-1 under SpecTier1.                                   *)
(***************************************************************************)
\* C29 as stated: Tier-1 is an LRU.  A get that is a Tier-1 hit makes the
\* key the most recently used: it becomes the last key Tier-1 would evict.
\* A call that takes Tier-1 over capacity evicts one key, the least
\* recently used of the keys Tier-1 held.
C29_Tier1IsLRU ==
    [][last'.n = last.n + 1 =>
         /\ (last'.op = "get" /\ last'.source = "L1_MEMORY") =>
                l1_memory_cache'[Len(l1_memory_cache')].key = last'.key
         /\ last'.evicted # {} => last'.evicted = {Head(last.uses)}]_vars


(***************************************************************************)
(* Properties of the key builder under SpecRules.                          *)
(***************************************************************************)
\* C31: the L1/L2 key is a function of (pdf bytes, label, schema): equal
\* inputs give equal keys, two schemas with the same field/description
\* pairs in a different key order give the same key, and different pdf
\* bytes give a different key.
C31_KeyDeterministic ==
    last.op = "keys" =>
        LET items(schema) == {schema[i] : i \in 1..Len(schema)}
            same_rest == last.pdf1 = last.pdf2 /\ last.label1 = last.label2
        IN /\ (same_rest /\ last.schema1 = last.schema2) => last.key1 = last.key2
           /\ (same_rest /\ items(last.schema1) = items(last.schema2))
                  => last.key1 = last.key2
           /\ last.pdf1 # last.pdf2 => last.key1 # last.key2

\* Two schemas of the same pairs in opposite key orders, on the same
\* document and label, were given keys.
C31_Witness ==
    /\ last.op = "keys"
    /\ last.pdf1 = last.pdf2 /\ last.label1 = last.label2
    /\ Len(last.schema1) = 2
    /\ last.schema2 = <<last.schema1[2], last.schema1[1]>>
    /\ last.key1 = last.key2


(***************************************************************************)
(* Properties of the structural matcher under SpecRules.                   *)
(***************************************************************************)
\* C32: for all signature sets A and B the similarity score is the Jaccard
\* index |A \cap B| / |A \cup B|, lies in [0,1], is 1 when A = B and A is
\* non-empty, is 0 when both are empty and when exactly one is empty, and
\* the match flag is true exactly when the score is >= 0.80.  The score is
\* the pair <<numerator, denominator>>, 0/0 standing for the 0.0 returned
\* for an empty union.
C32_JaccardSimilarity ==
    last.op = "similarity" =>
        LET A == last.new_signature
            B == last.template_signature
            common == Cardinality({x \in A : x \in B})
            all == Cardinality(A) + Cardinality(B) - common
            num == last.result.score[1]
            den == last.result.score[2]
        IN /\ ~last.result.raised
           /\ num = common /\ den = all
           /\ 0 <= num /\ num <= den
           /\ (A = B /\ A # {}) => (num = den /\ den # 0)
           /\ (A = {} \/ B = {}) => num = 0
           /\ last.result.is_match <=> (den # 0 /\ 5 * num >= 4 * den)

\* A score of exactly 0.80 (four labels in common out of five) was computed
\* and is a match.
C32_Witness ==
    /\ last.op = "similarity"
    /\ last.result.score = <<4, 5>>
    /\ last.result.is_match


(***************************************************************************)
(* Properties of the rule executor under SpecRules.                        *)
(***************************************************************************)
\* C33: per stored rule, a rule of type none yields null; a stored
\* single-typed rule (regex, relative_context or position alone) is not
\* executed and yields null; a hybrid rule without a regex sub-rule yields
\* null; a hybrid rule with a regex sub-rule yields either null or the text
\* of a token that matches the regex and has score > 0, chosen by highest
\* score and then smallest position distance.
C33_ExecutorOutput ==
    last.op = "rule_output" =>
        LET rule == last.rule
            elements == PdfTokens(last.doc)
            value == last.extracted_data[last.field_name]
            subs == rule.rule_data.rules
            Of(type) == {k \in 1..Len(subs) : subs[k].type = type}
            rgx == subs[MinIndex(Of("regex"))].data
            pos == subs[MinIndex(Of("position"))].data
            ctx == subs[MinIndex(Of("relative_context"))].data
            anchor == AnchorIndex(ctx.anchor_text, elements)
            Dist(i) == IF Of("position") = {} THEN Infinity ELSE DistSq(elements[i], pos)
            Score(i) ==
                (IF Of("position") # {} /\ Dist(i) <= POSITION_TOLERANCE_SQ THEN 9 ELSE 0)
                + (IF /\ Of("relative_context") # {}
                      /\ anchor # 0
                      /\ _find_element_by_direction(anchor, ctx.direction, elements) = i
                   THEN 9 ELSE 0)
                + (IF rgx.pattern \in STRONG_REGEX_PATTERNS
                      /\ RegexSearch(rgx.regex, elements[i].text)
                   THEN 10 ELSE 0)
            Eligible(i) == RegexSearch(rgx.regex, elements[i].text) /\ Score(i) > 0
        IN /\ DOMAIN last.extracted_data = {last.field_name}
           /\ rule.rule_type # "hybrid" => value = Null
           /\ (rule.rule_type = "hybrid" /\ Of("regex") = {}) => value = Null
           /\ (rule.rule_type = "hybrid" /\ Of("regex") # {}) =>
                 \/ value = Null /\ \A i \in 1..Len(elements) : ~Eligible(i)
                 \/ \E i \in 1..Len(elements) :
                       /\ value = elements[i].text
                       /\ Eligible(i)
                       /\ \A j \in 1..Len(elements) :
                             Eligible(j) =>
                                 \/ Score(i) > Score(j)
                                 \/ Score(i) = Score(j) /\ Dist(i) <= Dist(j)

\* A hybrid rule with a regex sub-rule gave a token although another token
\* had a score above 0 too: the token at the learned position does not
\* match the regex, or two tokens have the same score and the nearer wins.
C33_Witness ==
    /\ last.op = "rule_output"
    /\ last.rule.rule_type = "hybrid"
    /\ Len(last.rule.rule_data.rules) = 3
    /\ last.rule.rule_data.rules[1].data.pattern = "outros"
    /\ last.rule.rule_data.rules[2].data = [anchor_text |-> "Nome:", direction |-> "right"]
    /\ last.rule.rule_data.rules[3].data.rel_y[1] = 250
    /\ last.doc = 1
    /\ last.extracted_data["cpf"] = "123.456.789-00"


(***************************************************************************)
(* Properties of the pattern builder under SpecRules.                      *)
(***************************************************************************)
\* C34: for a non-null value found in the tokens that has a non-numeric
\* token on the same row strictly to its left, learn_rule_for_field returns
\* a rule of type relative_context whose anchor_text is the nearest such
\* left token, with direction right and confidence 0.8; and, when there is
\* no left anchor but a non-numeric token above in the same column, one
\* with that token as anchor_text and direction below.
C34_ContextRuleReturned ==
    last.op = "learned" =>
        LET elements == PdfTokens(last.doc)
            at == {i \in 1..Len(elements) : elements[i].text = last.field_value}
            v == elements[MinIndex(at)]
            left == {i \in 1..Len(elements) :
                        /\ elements[i].text \notin AllDigitTexts
                        /\ Abs(elements[i].y - v.y) <= Y_TOLERANCE_SAME_LINE
                        /\ elements[i].x < v.x}
            above == {i \in 1..Len(elements) :
                         /\ elements[i].text \notin AllDigitTexts
                         /\ elements[i].y < v.y
                         /\ Abs(elements[i].x - v.x) <= X_TOLERANCE_SAME_COLUMN}
            Returned(anchors, direction, Gap(_)) ==
                /\ last.rule.rule_type = "relative_context"
                /\ last.rule.confidence = Conf(80)
                /\ last.rule.rule_data.direction = direction
                /\ \E i \in anchors :
                      /\ last.rule.rule_data.anchor_text = elements[i].text
                      /\ \A j \in anchors : Gap(i) <= Gap(j)
            GapLeft(i) == v.x - elements[i].x
            GapAbove(i) == v.y - elements[i].y
        IN (last.field_value \notin {Null, "null"} /\ at # {}) =>
              /\ left # {} => Returned(left, "right", GapLeft)
              /\ (left = {} /\ above # {}) => Returned(above, "below", GapAbove)


C36_TiersHoldSameData ==
    \A key \in L1Keys(l1_memory_cache) \cap DOMAIN l2_disk_cache :
        /\ L1Entry(l1_memory_cache, key).data = l2_disk_cache[key].data
        /\ L1Entry(l1_memory_cache, key).dataPipe = l2_disk_cache[key].dataPipe


(***************************************************************************)
(* Properties of repeated learning under SpecOrch.                         *)
(***************************************************************************)
\* learn_rule_for_field tabulated over the fields, the values and the
\* documents of the model.
LearnedRule ==
    [f \in FieldNames, v \in FieldValues, d \in TemplateDocs |->
        learn_rule_for_field(f, v, PdfTokens(d))]

\* C37: after any sequence of learn_from_llm_result calls on one label, the
\* rule stored for a field is the rule produced by the most recent learning
\* call in which that field's learned confidence was >= 0.5: a call that
\* learns such a rule for a field of its schema leaves exactly that rule
\* stored for the field, whatever was stored before (a none rule for a null
\* value in place of a hybrid rule included), and a call in which the
\* field's confidence is below 0.5, or whose schema does not have the field,
\* leaves the rules stored for the field as they were.
C37_LatestConfidentRule ==
    [][IsLearnStep =>
        \E template_id \in {find_template_by_label([templates |-> templates',
                                                    extraction_rules |-> extraction_rules'],
                                                   last'.label).id} :
        \A f \in FieldNames :
        \E learned \in {LearnedRule[f, DictGet(last'.llm_data, f), last'.doc]} :
           LET Stored(rows) ==
                   {[rule_type |-> rows[i].rule_type, rule_data |-> rows[i].rule_data,
                     confidence |-> rows[i].confidence] :
                       i \in {k \in 1..Len(rows) : /\ rows[k].template_id = template_id
                                                    /\ rows[k].field_name = f}}
           IN IF /\ f \in SchemaFieldSet(last'.schema)
                 /\ learned.confidence >= MIN_RULE_CONFIDENCE_TO_SAVE
              THEN Stored(extraction_rules') = {learned}
              ELSE Stored(extraction_rules') = Stored(extraction_rules)]_vars

\* Two calls stored a none rule for cpf and a hybrid rule for nome, and the
\* third call, whose value for cpf is in no token of its document, left
\* the none rule there.
C37_Witness ==
    /\ last.op = "learn" /\ learn_calls = 3
    /\ "cpf" \in SchemaFieldSet(last.schema)
    /\ learn_rule_for_field("cpf", DictGet(last.llm_data, "cpf"),
                            PdfTokens(last.doc)).confidence = Conf(10)
    /\ \E i \in 1..Len(extraction_rules) :
          /\ extraction_rules[i].field_name = "cpf"
          /\ extraction_rules[i].template_id = find_template_by_label(DBState, last.label).id
          /\ extraction_rules[i].rule_type = "none"
    /\ \E i \in 1..Len(extraction_rules) :
          /\ extraction_rules[i].field_name = "nome"
          /\ extraction_rules[i].template_id = find_template_by_label(DBState, last.label).id
          /\ extraction_rules[i].rule_type = "hybrid"


(***************************************************************************)
(* Properties of overlapping learning calls under SpecLearnRace.           *)
(***************************************************************************)
\* C38: under any interleaving of two learn_from_llm_result calls for the
\* same label in which both read the template before either writes, no
\* update is lost and no duplicate is created: once both calls are over,
\* neither has failed on the label uniqueness constraint, the label has one
\* template, its signature is the union of the original signature and both
\* newly observed signatures, and its sample_count is the original one
\* (0 without a template) plus 2.
C38_NoLostUpdate ==
    (/\ last.op = "learn_race"
     /\ last.overlapped
     /\ \A c \in 1..2 : last.calls[c].pc \in {"returned", "raised"}) =>
        LET final == find_template_by_label(DBState, "oab")
            observed == UNION {extract_signature(PdfTokens(last.calls[c].doc)) : c \in 1..2}
        IN /\ \A c \in 1..2 : last.calls[c].pc = "returned"
           /\ Cardinality({i \in 1..Len(templates) : templates[i].label = "oab"}) = 1
           /\ final.structural_signature = last.original.structural_signature \cup observed
           /\ final.sample_count = last.original.sample_count + 2

==============================================================================
